---- MODULE Spec2Model ----
(***************************************************************************)
(* Contamination engine of mmeval-lab: text normalizer, exact / n-gram     *)
(* fingerprint index, MinHash / LSH index and the scan orchestrator; and   *)
(* the evaluation utilities: subtitle alignment, the two-layer cache, the  *)
(* resumable runner, example sharding and the component registry.          *)
(*                                                                         *)
(* A text is a sequence of characters; a character is a string.  The two   *)
(* non-ASCII characters of the model are written by code point.            *)
(***************************************************************************)
EXTENDS Integers, Sequences, FiniteSets, TLC

VARIABLES
    \* ---- normalizer harness (SpecNorm)
    src_text,       \* the input string x
    var_text,       \* a variant of x obtained by case / whitespace / punctuation edits
    canon1,         \* normalize_text(x)
    canon2,         \* normalize_text(normalize_text(x))
    canon_var,      \* normalize_text(variant)
    hash1,          \* compute_text_hash(x)
    hash_var,       \* compute_text_hash(variant)
    npc,            \* "idle" | "edit" | "done"
    \* ---- TextFingerprintIndex
    _exact,         \* self._exact: hash -> list of sample ids
    _ngrams,        \* self._ngrams: n-gram hash -> list of sample ids
    calls,          \* the add calls issued so far, in order
    ret,            \* what the last find_exact / find_near call returned
    \* ---- scan orchestrator (build_training_index, scan_benchmark)
    phase,          \* "idle" | "api" | "build" | "scan" | "done"
    consumed,       \* the manifest records load_manifest has yielded so far
    built,          \* the index as build_training_index returned it
    scanned,        \* the benchmark examples the loop has processed so far
    exact_matches,  \* the three result lists of scan_benchmark
    near_matches,
    clean,
    report,         \* the dict scan_benchmark returned
    \* ---- LSHIndex
    lsh,            \* num_bands, rows_per_band, _buckets, _signatures
    lsh_num_hashes, \* num_hashes of the MinHash objects used with the index
    lsh_calls,      \* the LSHIndex.add calls issued so far, in order
    lsh_ret,        \* what the last LSHIndex call returned, when it was a query
    \* ---- concurrent scan workers
    tasks,          \* the benchmark examples handed to the workers
    outcome,        \* per example: its classification, once a worker has it
    wstate,         \* per worker: its position in the loop body and its locals
    \* ---- MinHash harness (SpecMinHash)
    mh_in,          \* the texts x, y and the num_hashes of the MinHash objects
    mh_sig,         \* the MinHash objects computed so far: two of x, one of y
    mh_sim,         \* the jaccard values computed so far
    \* ---- run_contamination_scan (SpecRun)
    manifest,       \* the file at manifest_path: status, suffix and lines
    examples,       \* the benchmark examples benchmark.load yielded
    output_path,    \* output_path: None or a path
    cursor,         \* lines of the manifest that load_manifest_jsonl has read
    error,          \* the exception that left run_contamination_scan, if any
    output_file,    \* the content of the file at output_path, if there is one
    \* ---- align_subtitles_to_frames (SpecAlign)
    subtitles,      \* the list of SubtitleSegment passed in
    frame_timestamps_ms, \* the list of frame timestamps passed in
    window_ms,      \* the window_ms argument
    aligned,        \* the list align_subtitles_to_frames returned
    \* ---- TwoLayerCache (SpecCache)
    cache,          \* the object: _memory, _access_order, _memory_limit, _disk_path
    disk,           \* the .pkl files under the disk path: key -> pickled value
    cache_calls,    \* the get / put / clear calls issued so far, with their results
    \* ---- ResumableRunner (SpecResume)
    results_file,   \* the file at output_path: absent, or its lines
    runner,         \* the live ResumableRunner object: _completed
    recorded,       \* the example ids passed to record so far, by any runner
    pending_gen,    \* the generator pending(examples) returned: its position and trace
    \* ---- shard_examples (SpecShard)
    shard_in,       \* the examples list and num_shards of the job
    shard_out,      \* per shard_id: what shard_examples yielded, once that shard ran
    \* ---- Registry (SpecRegistry)
    registry,       \* the Registry object: _name, _registry
    decorators,     \* the names for which register(name) has returned a decorator
    first_reg,      \* per name: the factory of its first successful registration
    reg_ret         \* the last call: its arguments, the registry before it, its outcome

norm_vars == <<src_text, var_text, canon1, canon2, canon_var, hash1, hash_var, npc>>
index_vars == <<_exact, _ngrams, calls, ret>>
scan_vars == <<phase, consumed, built, scanned, exact_matches, near_matches, clean, report>>

lsh_vars == <<lsh, lsh_num_hashes, lsh_calls, lsh_ret>>

conc_vars == <<tasks, outcome, wstate>>

mh_vars == <<mh_in, mh_sig, mh_sim>>

run_vars == <<manifest, examples, output_path, cursor, error, output_file>>

align_vars == <<subtitles, frame_timestamps_ms, window_ms, aligned>>

\* the contamination engine, and the evaluation utilities
engine_vars == <<norm_vars, index_vars, scan_vars, lsh_vars, conc_vars, mh_vars, run_vars>>
cache_vars == <<cache, disk, cache_calls>>
resume_vars == <<results_file, runner, recorded, pending_gen>>
shard_vars == <<shard_in, shard_out>>
reg_vars == <<registry, decorators, first_reg, reg_ret>>
util_vars == <<align_vars, cache_vars, resume_vars, shard_vars, reg_vars>>

vars == <<engine_vars, util_vars>>

\* what the actions of each component leave alone
norm_frame == <<index_vars, scan_vars, lsh_vars, conc_vars, mh_vars, run_vars, util_vars>>
index_frame == <<norm_vars, scan_vars, lsh_vars, conc_vars, mh_vars, run_vars, util_vars>>
scan_frame == <<norm_vars, lsh_vars, conc_vars, mh_vars, run_vars, util_vars>>
lsh_frame == <<norm_vars, index_vars, scan_vars, conc_vars, mh_vars, run_vars, util_vars>>
conc_frame == <<norm_vars, lsh_vars, mh_vars, run_vars, util_vars>>
mh_frame == <<norm_vars, index_vars, scan_vars, lsh_vars, conc_vars, run_vars, util_vars>>
run_frame == <<norm_vars, lsh_vars, conc_vars, mh_vars, util_vars>>
align_frame == <<engine_vars, cache_vars, resume_vars, shard_vars, reg_vars>>
cache_frame == <<engine_vars, align_vars, resume_vars, shard_vars, reg_vars>>
resume_frame == <<engine_vars, align_vars, cache_vars, shard_vars, reg_vars>>
shard_frame == <<engine_vars, align_vars, cache_vars, resume_vars, reg_vars>>
reg_frame == <<engine_vars, align_vars, cache_vars, resume_vars, shard_vars>>

None == "None"

----------------------------------------------------------------------------
\* Bounds of the model

MaxTextLen == 3     \* longest input string drawn for the normalizer
MaxVarLen == 5      \* longest variant string built by edits

----------------------------------------------------------------------------
\* Characters

Whitespace == {" ", "\t"}

\* the characters of the model that are neither \w nor \s
Punctuation == {",", "!"}

\* punctuation characters a writer attaches to a word; the underscore
\* (Unicode category Pc, in string.punctuation) is one of them
AttachedPunctuation == {",", "_"}

\* \s of the re module
IsSpace(c) == c \in Whitespace

\* \w of the re module: letters, digits and the underscore
IsWord(c) == ~IsSpace(c) /\ c \notin Punctuation

\* str.lower() on one character; U+210C (black-letter capital H) has no
\* lowercase mapping
char_lower(c) ==
    CASE c = "A" -> "a"
      [] c = "B" -> "b"
      [] c = "H" -> "h"
      [] c = "U+FF21" -> "U+FF41"
      [] OTHER -> c

\* str.upper() on one character (used by the harness to vary the case)
char_upper(c) ==
    CASE c = "a" -> "A"
      [] c = "b" -> "B"
      [] c = "h" -> "H"
      [] c = "U+FF41" -> "U+FF21"
      [] OTHER -> c

\* unicodedata.normalize("NFKC", c) on one character: fullwidth letters map
\* to ASCII, the black-letter H maps to capital H
char_nfkc(c) ==
    CASE c = "U+FF41" -> <<"a">>
      [] c = "U+FF21" -> <<"A">>
      [] c = "U+210C" -> <<"H">>
      [] OTHER -> <<c>>

----------------------------------------------------------------------------
\* normalize_text

str_lower(text) == [i \in 1..Len(text) |-> char_lower(text[i])]

RECURSIVE unicode_nfkc(_)
unicode_nfkc(text) ==
    IF text = <<>> THEN <<>>
    ELSE char_nfkc(Head(text)) \o unicode_nfkc(Tail(text))

RECURSIVE lstrip(_)
lstrip(text) ==
    IF text # <<>> /\ IsSpace(Head(text)) THEN lstrip(Tail(text)) ELSE text

RECURSIVE rstrip(_)
rstrip(text) ==
    IF text # <<>> /\ IsSpace(text[Len(text)])
    THEN rstrip(SubSeq(text, 1, Len(text) - 1))
    ELSE text

\* str.strip()
strip(text) == rstrip(lstrip(text))

\* re.sub(r"\s+", " ", text): every maximal whitespace run becomes one space
RECURSIVE collapse_ws(_)
collapse_ws(text) ==
    IF text = <<>> THEN <<>>
    ELSE IF IsSpace(Head(text)) THEN <<" ">> \o collapse_ws(lstrip(text))
    ELSE <<Head(text)>> \o collapse_ws(Tail(text))

\* re.sub(r"[^\w\s]", "", text)
remove_punct(text) == SelectSeq(text, LAMBDA c : IsWord(c) \/ IsSpace(c))

normalize_text(text) ==
    remove_punct(strip(collapse_ws(unicode_nfkc(str_lower(text)))))

\* hashlib.sha256(...).hexdigest(): injective on the texts of the model; the
\* digest is 64 hex characters long
sha256_hexdigest(text) == [sha256 |-> text, hexlen |-> 64]

compute_text_hash(text, normalize) ==
    sha256_hexdigest(IF normalize THEN normalize_text(text) ELSE text)

----------------------------------------------------------------------------
\* Python values used below

\* an optional value: <<>> is None (or an absent key), <<v>> holds v
Nothing == <<>>
Some(v) == <<v>>

\* the empty dict; a dict is a function from its keys
EmptyDict == <<>>

SeqToSet(seq) == {seq[i] : i \in 1..Len(seq)}

\* a list without its repeated elements, first occurrences kept: a Python
\* set together with the order in which it is iterated
RECURSIVE Dedup(_)
Dedup(seq) ==
    IF seq = <<>> THEN <<>>
    ELSE LET front == Dedup(SubSeq(seq, 1, Len(seq) - 1))
             last == seq[Len(seq)]
         IN  IF last \in SeqToSet(front) THEN front ELSE Append(front, last)

RECURSIVE GCD(_, _)
GCD(a, b) == IF b = 0 THEN a ELSE GCD(b, a % b)

\* a / b of two non-negative ints: the quotient as a reduced fraction
\* <<numerator, denominator>>, so that equal floats are equal values
TrueDiv(a, b) ==
    IF b = 0 THEN "ZeroDivisionError"
    ELSE LET g == GCD(a, b) IN <<a \div g, b \div g>>

\* x >= y on quotients
FracGE(x, y) == x[1] * y[2] >= y[1] * x[2]

\* d.setdefault(k, []).append(v)
setdefault_append(d, k, v) ==
    IF k \in DOMAIN d THEN [d EXCEPT ![k] = Append(@, v)]
    ELSE d @@ (k :> <<v>>)

----------------------------------------------------------------------------
\* compute_ngram_hashes

NgramSize == 5

\* the first word of a text that does not start with whitespace
RECURSIVE first_word(_)
first_word(text) ==
    IF text = <<>> \/ IsSpace(Head(text)) THEN <<>>
    ELSE <<Head(text)>> \o first_word(Tail(text))

\* str.split(): the words between whitespace runs
RECURSIVE split(_)
split(text) ==
    LET t == lstrip(text)
    IN  IF t = <<>> THEN <<>>
        ELSE LET w == first_word(t)
             IN  <<w>> \o split(SubSeq(t, Len(w) + 1, Len(t)))

\* " ".join(words)
RECURSIVE join_space(_)
join_space(words) ==
    IF words = <<>> THEN <<>>
    ELSE IF Len(words) = 1 THEN words[1]
    ELSE words[1] \o <<" ">> \o join_space(Tail(words))

\* hexdigest()[:16]
truncate16(digest) == [digest EXCEPT !.hexlen = 16]

\* the set compute_ngram_hashes returns, as the list of its elements in
\* iteration order (taken to be the order of first occurrence in the text)
compute_ngram_hashes(text, n, normalize) ==
    LET t == IF normalize THEN normalize_text(text) ELSE text
        words == split(t)
    IN  IF Len(words) < n THEN <<compute_text_hash(t, FALSE)>>
        ELSE Dedup([i \in 1..(Len(words) - n + 1) |->
                        truncate16(sha256_hexdigest(join_space(SubSeq(words, i, i + n - 1))))])

----------------------------------------------------------------------------
\* TextFingerprintIndex: an index is the record of its two dicts

EmptyIndex == [_exact |-> EmptyDict, _ngrams |-> EmptyDict]

RECURSIVE add_ngrams(_, _, _)
add_ngrams(ngrams, hashes, sample_id) ==
    IF hashes = <<>> THEN ngrams
    ELSE add_ngrams(setdefault_append(ngrams, Head(hashes), sample_id), Tail(hashes), sample_id)

\* add with the bucket overwritten instead of appended to
add_overwrite(index, sample_id, text) ==
    [_exact  |-> (compute_text_hash(text, TRUE) :> <<sample_id>>) @@ index._exact,
     _ngrams |-> add_ngrams(index._ngrams, compute_ngram_hashes(text, NgramSize, TRUE), sample_id)]

\* add with the sample id put at the front of its bucket
add_prepend(index, sample_id, text) ==
    LET h == compute_text_hash(text, TRUE)
        old == IF h \in DOMAIN index._exact THEN index._exact[h] ELSE <<>>
    IN  [_exact  |-> (h :> (<<sample_id>> \o old)) @@ index._exact,
         _ngrams |-> add_ngrams(index._ngrams, compute_ngram_hashes(text, NgramSize, TRUE), sample_id)]

\* TextFingerprintIndex.add
add(index, sample_id, text) ==
    [_exact  |-> setdefault_append(index._exact, compute_text_hash(text, TRUE), sample_id),
     _ngrams |-> add_ngrams(index._ngrams, compute_ngram_hashes(text, NgramSize, TRUE), sample_id)]

\* find_exact hashing the raw text
find_exact_raw(index, text) ==
    LET h == compute_text_hash(text, FALSE)
    IN  [ret   |-> IF h \in DOMAIN index._exact THEN index._exact[h] ELSE <<>>,
         index |-> index]

\* find_exact written with setdefault: a miss leaves an empty bucket behind
find_exact_setdefault(index, text) ==
    LET h == compute_text_hash(text, TRUE)
    IN  [ret   |-> IF h \in DOMAIN index._exact THEN index._exact[h] ELSE <<>>,
         index |-> IF h \in DOMAIN index._exact THEN index
                   ELSE [index EXCEPT !._exact = @ @@ (h :> <<>>)]]

\* TextFingerprintIndex.find_exact: the list returned and the index afterwards
find_exact(index, text) ==
    LET h == compute_text_hash(text, TRUE)
    IN  [ret   |-> IF h \in DOMAIN index._exact THEN index._exact[h] ELSE <<>>,
         index |-> index]

\* matches[sample_id] = matches.get(sample_id, 0) + 1 for every id of a
\* bucket; matches is the list of its items in insertion order
RECURSIVE count_bucket(_, _)
count_bucket(matches, bucket) ==
    IF bucket = <<>> THEN matches
    ELSE LET sample_id == Head(bucket)
             hit == {i \in 1..Len(matches) : matches[i][1] = sample_id}
             next == IF hit = {} THEN Append(matches, <<sample_id, 1>>)
                     ELSE [i \in 1..Len(matches) |->
                              IF i \in hit THEN <<sample_id, matches[i][2] + 1>> ELSE matches[i]]
         IN  count_bucket(next, Tail(bucket))

RECURSIVE count_matches(_, _, _)
count_matches(matches, hashes, ngrams) ==
    IF hashes = <<>> THEN matches
    ELSE count_matches(
             count_bucket(matches,
                          IF Head(hashes) \in DOMAIN ngrams THEN ngrams[Head(hashes)] ELSE <<>>),
             Tail(hashes), ngrams)

\* sorted(results, key=lambda x: -x[1]): stable, descending by similarity
RECURSIVE sorted_desc(_)
sorted_desc(results) ==
    IF results = <<>> THEN <<>>
    ELSE LET front == sorted_desc(SubSeq(results, 1, Len(results) - 1))
             last == results[Len(results)]
             k == Cardinality({i \in 1..Len(front) : FracGE(front[i][2], last[2])})
         IN  SubSeq(front, 1, k) \o <<last>> \o SubSeq(front, k + 1, Len(front))

\* find_near keeping only the similarities above the threshold
find_near_strict(index, text, threshold) ==
    LET query_ngrams == compute_ngram_hashes(text, NgramSize, TRUE)
        matches == count_matches(<<>>, query_ngrams, index._ngrams)
        scored == [i \in 1..Len(matches) |->
                      <<matches[i][1], TrueDiv(matches[i][2], Len(query_ngrams))>>]
        results == SelectSeq(scored, LAMBDA m : ~FracGE(threshold, m[2]))
    IN  [ret   |-> IF query_ngrams = <<>> THEN <<>> ELSE sorted_desc(results),
         index |-> index]

\* TextFingerprintIndex.find_near: the list of (sample_id, similarity) pairs
\* returned and the index afterwards
find_near(index, text, threshold) ==
    LET query_ngrams == compute_ngram_hashes(text, NgramSize, TRUE)
        matches == count_matches(<<>>, query_ngrams, index._ngrams)
        scored == [i \in 1..Len(matches) |->
                      <<matches[i][1], TrueDiv(matches[i][2], Len(query_ngrams))>>]
        results == SelectSeq(scored, LAMBDA m : FracGE(m[2], threshold))
    IN  [ret   |-> IF query_ngrams = <<>> THEN <<>> ELSE sorted_desc(results),
         index |-> index]

----------------------------------------------------------------------------
\* MinHash

ShingleSize == 5            \* shingle_size: int = 5
HashModulus == 65521        \* range of the stand-in for MD5

\* the code point of a character, reduced to the characters of the model
CharCode(c) ==
    CASE c = " " -> 32 [] c = "\t" -> 9 [] c = "!" -> 33 [] c = "," -> 44
      [] c = "A" -> 65 [] c = "B" -> 66 [] c = "H" -> 72
      [] c = "a" -> 97 [] c = "b" -> 98 [] c = "c" -> 99 [] c = "d" -> 100
      [] c = "e" -> 101 [] c = "f" -> 102 [] c = "g" -> 103 [] c = "h" -> 104
      [] c = "x" -> 120 [] c = "y" -> 121 [] c = "z" -> 122
      [] OTHER -> 255

\* _shingle: the k-word windows of the lowercased text with its whitespace
\* runs collapsed, in order of generation; no window when the text has
\* fewer than k words
_shingle(text, k) ==
    LET words == split(collapse_ws(strip(str_lower(text))))
    IN  [i \in 1..(IF Len(words) - k + 1 > 0 THEN Len(words) - k + 1 ELSE 0) |->
            join_space(SubSeq(words, i, i + k - 1))]

\* the bytes of a shingle folded into one number below HashModulus
RECURSIVE ShingleCode(_)
ShingleCode(shingle) ==
    IF shingle = <<>> THEN 7
    ELSE (31 * ShingleCode(SubSeq(shingle, 1, Len(shingle) - 1))
          + CharCode(shingle[Len(shingle)])) % HashModulus

\* _hash_shingle: int(md5(f"{seed}:{shingle}").hexdigest(), 16).  MD5 is
\* replaced by a seeded permutation of the shingle codes: deterministic,
\* positive, and ordering the shingles differently under different seeds
_hash_shingle(shingle, seed) ==
    ((((seed % 100) * 2 + 3) * ShingleCode(shingle) + 11 * seed + 1) % HashModulus) + 1

SetMin(S) == CHOOSE m \in S : \A x \in S : m <= x

\* MinHash(num_hashes).compute(text, shingle_size): the MinHash object
MinHash_compute(num_hashes, text, shingle_size) ==
    LET shingles == SeqToSet(_shingle(text, shingle_size))
    IN  [num_hashes |-> num_hashes,
         signature |->
             IF shingles = {} THEN [i \in 1..num_hashes |-> 0]
             ELSE [i \in 1..num_hashes |->
                      SetMin({_hash_shingle(sh, i - 1) : sh \in shingles})]]

\* jaccard with the positions holding the empty-set sentinel 0 not counted
\* as matches
jaccard_skip_sentinel(self, other) ==
    IF Len(self.signature) # Len(other.signature) THEN "ValueError"
    ELSE TrueDiv(Cardinality({i \in 1..Len(self.signature) :
                                  /\ self.signature[i] = other.signature[i]
                                  /\ self.signature[i] # 0}),
                 Len(self.signature))

\* MinHash.jaccard
jaccard(self, other) ==
    IF Len(self.signature) # Len(other.signature) THEN "ValueError"
    ELSE TrueDiv(Cardinality({i \in 1..Len(self.signature) :
                                  self.signature[i] = other.signature[i]}),
                 Len(self.signature))

----------------------------------------------------------------------------
\* LSHIndex

\* LSHIndex.__init__
LSHIndex_init(num_bands, rows_per_band) ==
    [num_bands |-> num_bands,
     rows_per_band |-> rows_per_band,
     _buckets |-> [b \in 1..num_bands |-> EmptyDict],
     _signatures |-> EmptyDict]

\* signature[start:end] of a Python list
py_slice(seq, start, end) ==
    SubSeq(seq, start + 1, IF end < Len(seq) THEN end ELSE Len(seq))

\* tuple(minhash.signature[start:end]) of band band_idx (counted from 0)
band_of(index, minhash, band_idx) ==
    py_slice(minhash.signature, band_idx * index.rows_per_band,
             band_idx * index.rows_per_band + index.rows_per_band)

\* hash(band) of a tuple of ints: taken to be free of collisions
bucket_key(band) == band

\* LSHIndex.add
lsh_add(index, doc_id, minhash) ==
    [index EXCEPT
        !._signatures = (doc_id :> minhash) @@ @,
        !._buckets = [b \in 1..index.num_bands |->
                         setdefault_append(@[b], bucket_key(band_of(index, minhash, b - 1)), doc_id)]]

\* mutation of lsh_candidates: only the bucket of the first band is read
lsh_candidates_first_band(index, minhash, nbands) ==
    LET key == bucket_key(band_of(index, minhash, 0))
    IN  IF nbands >= 1 /\ key \in DOMAIN index._buckets[1]
        THEN index._buckets[1][key] ELSE <<>>

\* the candidates of a query, in the order the bands yield them (the
\* iteration order of the Python set is taken to be that order)
RECURSIVE lsh_candidates(_, _, _)
lsh_candidates(index, minhash, nbands) ==
    IF nbands = 0 THEN <<>>
    ELSE LET key == bucket_key(band_of(index, minhash, nbands - 1))
             bucket == IF key \in DOMAIN index._buckets[nbands]
                       THEN index._buckets[nbands][key] ELSE <<>>
         IN  lsh_candidates(index, minhash, nbands - 1) \o bucket

\* LSHIndex.query keeping only the similarities above the threshold
lsh_query_strict(index, minhash, threshold) ==
    LET candidates == Dedup(lsh_candidates(index, minhash, index.num_bands))
        sims == [i \in 1..Len(candidates) |->
                    <<candidates[i], jaccard(minhash, index._signatures[candidates[i]])>>]
    IN  IF \E i \in 1..Len(sims) : sims[i][2] = "ValueError" THEN "ValueError"
        ELSE sorted_desc(SelectSeq(sims, LAMBDA m : ~FracGE(threshold, m[2])))

\* LSHIndex.query: the list of (doc_id, similarity) pairs, or the
\* ValueError that jaccard raised
lsh_query(index, minhash, threshold) ==
    LET candidates == Dedup(lsh_candidates(index, minhash, index.num_bands))
        sims == [i \in 1..Len(candidates) |->
                    <<candidates[i], jaccard(minhash, index._signatures[candidates[i]])>>]
    IN  IF \E i \in 1..Len(sims) : sims[i][2] = "ValueError" THEN "ValueError"
        ELSE sorted_desc(SelectSeq(sims, LAMBDA m : FracGE(m[2], threshold)))

----------------------------------------------------------------------------
\* Scan orchestrator: build_training_index and scan_benchmark

MaxSamples == 2     \* manifest records streamed by one build
MaxExamples == 2    \* benchmark examples scanned by one scan_benchmark call

DefaultThreshold == <<1, 2>>    \* threshold: float = 0.5
MatchedSamplesCap == 5          \* near[:5]
NearDetailsCap == 100           \* near_matches[:100]

TextA == <<"a", " ", "b", " ", "c", " ", "d", " ", "e", " ", "f">>
TextAv == <<"A", " ", "b", ",", " ", "c", " ", "d", " ", " ", "e", " ", "f", "!">>
TextB == <<"a", " ", "b", " ", "c", " ", "d", " ", "e", " ", "g">>
TextShort == <<"x", " ", "y">>
TextOther == <<"x", " ", "z">>
TextBang == <<"!">>
TextEmpty == <<>>

\* TrainingSample records of a manifest: sample_id and the optional text
ManifestRecords ==
    {[sample_id |-> id, text |-> Some(t)] : id \in {"s1", "s2"}, t \in {TextA, TextShort}}
    \cup {[sample_id |-> "s1", text |-> Some(TextBang)],
          [sample_id |-> "s2", text |-> Some(TextEmpty)],
          [sample_id |-> "s2", text |-> Nothing]}

\* benchmark examples: example_id, example["inputs"]["question"] and
\* example["question"], each absent or a text
BenchmarkExamples ==
    {[example_id |-> "e1", inputs |-> Some(TextAv), question |-> Nothing],
     [example_id |-> "e1", inputs |-> Some(TextB), question |-> Nothing],
     [example_id |-> "e2", inputs |-> Some(TextB), question |-> Nothing],
     [example_id |-> "e2", inputs |-> Nothing, question |-> Some(TextShort)],
     [example_id |-> "e1", inputs |-> Some(TextEmpty), question |-> Some(TextOther)],
     [example_id |-> "e2", inputs |-> Nothing, question |-> Nothing]}

\* text = sample.text or ""
sample_text(sample) == IF sample.text = Nothing THEN <<>> ELSE sample.text[1]

\* text = example.get("inputs", {}).get(text_field, "");
\* if not text: text = example.get(text_field, "")
example_text(example) ==
    LET text == IF example.inputs = Nothing THEN <<>> ELSE example.inputs[1]
    IN  IF text # <<>> THEN text
        ELSE IF example.question = Nothing THEN <<>> ELSE example.question[1]

EmptyLists == [exact_matches |-> <<>>, near_matches |-> <<>>, clean |-> <<>>]

exact_entry(example, exact) ==
    [example_id |-> example.example_id, matched_samples |-> exact, match_type |-> "exact"]

near_entry(example, near) ==
    [example_id |-> example.example_id,
     matched_samples |-> [i \in 1..(IF Len(near) < MatchedSamplesCap THEN Len(near)
                                     ELSE MatchedSamplesCap) |-> near[i][1]],
     similarity |-> near[1][2],
     match_type |-> "near"]

\* the loop body without its continue: an exact match falls through to the
\* near-duplicate check
scan_example_fallthrough(lists, index, example, threshold) ==
    LET text == example_text(example)
        fe == find_exact(index, text)
        fn == find_near(fe.index, text, threshold)
        l1 == IF fe.ret # <<>>
              THEN [lists EXCEPT !.exact_matches = Append(@, exact_entry(example, fe.ret))]
              ELSE lists
        l2 == IF fn.ret # <<>>
              THEN [l1 EXCEPT !.near_matches = Append(@, near_entry(example, fn.ret))]
              ELSE [l1 EXCEPT !.clean = Append(@, example.example_id)]
    IN  [lists |-> l2, index |-> fn.index]

\* one iteration of the loop of scan_benchmark: the three lists and the
\* index afterwards
scan_example(lists, index, example, threshold) ==
    LET text == example_text(example)
        fe == find_exact(index, text)
        fn == find_near(fe.index, text, threshold)
    IN  IF fe.ret # <<>>
        THEN [lists |-> [lists EXCEPT !.exact_matches = Append(@, exact_entry(example, fe.ret))],
              index |-> fe.index]
        ELSE IF fn.ret # <<>>
        THEN [lists |-> [lists EXCEPT !.near_matches = Append(@, near_entry(example, fn.ret))],
              index |-> fn.index]
        ELSE [lists |-> [lists EXCEPT !.clean = Append(@, example.example_id)],
              index |-> fn.index]

\* the report with the rate computed from the exact matches alone
make_report_exact_rate(benchmark_examples, lists) ==
    [total_examples |-> Len(benchmark_examples),
     exact_matches |-> Len(lists.exact_matches),
     near_matches |-> Len(lists.near_matches),
     clean |-> Len(lists.clean),
     contamination_rate |->
         IF benchmark_examples # <<>>
         THEN TrueDiv(Len(lists.exact_matches), Len(benchmark_examples))
         ELSE 0,
     exact_match_details |-> lists.exact_matches,
     near_match_details |-> SubSeq(lists.near_matches, 1,
         IF Len(lists.near_matches) < NearDetailsCap THEN Len(lists.near_matches)
         ELSE NearDetailsCap)]

\* the dict scan_benchmark returns
make_report(benchmark_examples, lists) ==
    [total_examples |-> Len(benchmark_examples),
     exact_matches |-> Len(lists.exact_matches),
     near_matches |-> Len(lists.near_matches),
     clean |-> Len(lists.clean),
     contamination_rate |->
         IF benchmark_examples # <<>>
         THEN TrueDiv(Len(lists.exact_matches) + Len(lists.near_matches), Len(benchmark_examples))
         ELSE 0,
     exact_match_details |-> lists.exact_matches,
     near_match_details |-> SubSeq(lists.near_matches, 1,
         IF Len(lists.near_matches) < NearDetailsCap THEN Len(lists.near_matches)
         ELSE NearDetailsCap)]

\* each specification leaves the variables of the other components idle
NormIdle ==
    /\ src_text = <<>> /\ var_text = <<>>
    /\ canon1 = None /\ canon2 = None /\ canon_var = None
    /\ hash1 = None /\ hash_var = None
    /\ npc = "idle"

ConcIdle == tasks = <<>> /\ outcome = <<>> /\ wstate = <<>>

MhIdle == mh_in = Nothing /\ mh_sig = Nothing /\ mh_sim = Nothing

RunIdle ==
    /\ manifest = Nothing /\ examples = <<>> /\ output_path = Nothing
    /\ cursor = 0 /\ error = Nothing /\ output_file = Nothing

LshIdle == lsh = Nothing /\ lsh_num_hashes = 0 /\ lsh_calls = <<>> /\ lsh_ret = Nothing

Index == [_exact |-> _exact, _ngrams |-> _ngrams]
Lists == [exact_matches |-> exact_matches, near_matches |-> near_matches, clean |-> clean]

IndexIdle == _exact = EmptyDict /\ _ngrams = EmptyDict /\ calls = <<>> /\ ret = Nothing

ScanIdle ==
    /\ phase = "idle"
    /\ consumed = <<>> /\ built = Nothing /\ scanned = <<>>
    /\ exact_matches = <<>> /\ near_matches = <<>> /\ clean = <<>>
    /\ report = Nothing

EngineIdle ==
    NormIdle /\ IndexIdle /\ ScanIdle /\ LshIdle /\ ConcIdle /\ MhIdle /\ RunIdle

AlignIdle ==
    /\ subtitles = <<>> /\ frame_timestamps_ms = <<>>
    /\ window_ms = 0 /\ aligned = Nothing

CacheIdle == cache = Nothing /\ disk = EmptyDict /\ cache_calls = <<>>

ResumeIdle ==
    /\ results_file = Nothing /\ runner = Nothing
    /\ recorded = <<>> /\ pending_gen = Nothing

ShardIdle == shard_in = Nothing /\ shard_out = EmptyDict

RegIdle ==
    /\ registry = Nothing /\ decorators = {}
    /\ first_reg = EmptyDict /\ reg_ret = Nothing

UtilIdle == AlignIdle /\ CacheIdle /\ ResumeIdle /\ ShardIdle /\ RegIdle

Init ==
    /\ UtilIdle
    /\ NormIdle
    /\ LshIdle
    /\ MhIdle
    /\ RunIdle
    /\ ConcIdle
    /\ IndexIdle
    /\ phase = "build"
    /\ consumed = <<>> /\ built = Nothing /\ scanned = <<>>
    /\ exact_matches = <<>> /\ near_matches = <<>> /\ clean = <<>>
    /\ report = Nothing

\* build_training_index, one iteration: the next record of the manifest
BuildStep(sample) ==
    /\ phase = "build"
    /\ Len(consumed) < MaxSamples
    /\ consumed' = Append(consumed, sample)
    /\ LET text == sample_text(sample)
       IN  IF text # <<>>
           THEN LET next == add(Index, sample.sample_id, text)
                IN  /\ _exact' = next._exact
                    /\ _ngrams' = next._ngrams
                    /\ calls' = Append(calls, [sample_id |-> sample.sample_id, text |-> text])
           ELSE UNCHANGED <<_exact, _ngrams, calls>>
    /\ UNCHANGED <<ret, phase, built, scanned, exact_matches, near_matches, clean, report>>
    /\ UNCHANGED scan_frame

\* build_training_index returns the index; scan_benchmark starts on it
BuildReturn ==
    /\ phase = "build"
    /\ phase' = "scan"
    /\ built' = Some(Index)
    /\ UNCHANGED <<consumed, scanned, exact_matches, near_matches, clean, report>>
    /\ UNCHANGED index_vars
    /\ UNCHANGED scan_frame

\* scan_benchmark, one iteration of its loop
ScanStep(example) ==
    /\ phase = "scan"
    /\ Len(scanned) < MaxExamples
    /\ scanned' = Append(scanned, example)
    /\ LET next == scan_example(Lists, Index, example, DefaultThreshold)
       IN  /\ exact_matches' = next.lists.exact_matches
           /\ near_matches' = next.lists.near_matches
           /\ clean' = next.lists.clean
           /\ _exact' = next.index._exact
           /\ _ngrams' = next.index._ngrams
    /\ UNCHANGED <<calls, ret, phase, consumed, built, report>>
    /\ UNCHANGED scan_frame

\* scan_benchmark returns the report
ScanReturn ==
    /\ phase = "scan"
    /\ phase' = "done"
    /\ report' = Some(make_report(scanned, Lists))
    /\ UNCHANGED <<consumed, built, scanned, exact_matches, near_matches, clean>>
    /\ UNCHANGED index_vars
    /\ UNCHANGED scan_frame

Next ==
    \/ \E sample \in ManifestRecords : BuildStep(sample)
    \/ BuildReturn
    \/ \E example \in BenchmarkExamples : ScanStep(example)
    \/ ScanReturn

Spec == Init /\ [][Next]_vars

----------------------------------------------------------------------------
\* scan_benchmark over a benchmark longer than the cap of the detail lists:
\* a few examples chosen freely, then copies of the last of them

LongScanLen == NearDetailsCap + 1

TextC == <<"a", " ", "b", " ", "c", " ", "d", " ", "e">>

LongRecords == {[sample_id |-> "s1", text |-> Some(TextA)]}

LongExamples ==
    {[example_id |-> "e1", inputs |-> Some(TextAv), question |-> Nothing],
     [example_id |-> "e2", inputs |-> Some(TextB), question |-> Nothing],
     [example_id |-> "e3", inputs |-> Some(TextC), question |-> Nothing]}

\* scan_benchmark, one iteration of its loop
LongScanStep(example) ==
    /\ phase = "scan"
    /\ Len(scanned) < LongScanLen
    /\ IF Len(scanned) < MaxExamples THEN TRUE ELSE example = scanned[Len(scanned)]
    /\ scanned' = Append(scanned, example)
    /\ LET next == scan_example(Lists, Index, example, DefaultThreshold)
       IN  /\ exact_matches' = next.lists.exact_matches
           /\ near_matches' = next.lists.near_matches
           /\ clean' = next.lists.clean
           /\ _exact' = next.index._exact
           /\ _ngrams' = next.index._ngrams
    /\ UNCHANGED <<calls, ret, phase, consumed, built, report>>
    /\ UNCHANGED scan_frame

NextLong ==
    \/ \E sample \in LongRecords : BuildStep(sample)
    \/ BuildReturn
    \/ \E example \in LongExamples : LongScanStep(example)
    \/ ScanReturn

SpecLong == Init /\ [][NextLong]_vars

----------------------------------------------------------------------------
\* Concurrent scan: after build_training_index has returned, workers run
\* the loop body of scan_benchmark on different examples, sharing the index
\* without a lock.  A worker's find_exact and find_near calls are separate
\* steps, interleaved freely with the steps of the other workers.

Workers == {"w1", "w2"}

ConcRecords ==
    {[sample_id |-> "s1", text |-> Some(TextA)],
     [sample_id |-> "s2", text |-> Some(TextShort)],
     [sample_id |-> "s2", text |-> Some(TextA)]}

ConcExamples ==
    {[example_id |-> "e1", inputs |-> Some(TextAv), question |-> Nothing],
     [example_id |-> "e2", inputs |-> Some(TextB), question |-> Nothing],
     [example_id |-> "e3", inputs |-> Nothing, question |-> Some(TextOther)]}

WorkerIdle == [pc |-> "idle", task |-> 0]

\* the index is handed to the workers together with the list of examples
ConcStart ==
    /\ phase = "build"
    /\ phase' = "conc"
    /\ built' = Some(Index)
    /\ \E n \in 1..MaxExamples : tasks' \in [1..n -> ConcExamples]
    /\ outcome' = [k \in 1..Len(tasks') |-> Nothing]
    /\ wstate' = [w \in Workers |-> WorkerIdle]
    /\ UNCHANGED <<consumed, scanned, exact_matches, near_matches, clean, report>>
    /\ UNCHANGED index_vars
    /\ UNCHANGED conc_frame

\* a worker takes an example no worker has taken
WorkerTake(w, k) ==
    /\ phase = "conc"
    /\ wstate[w].pc = "idle"
    /\ k \in 1..Len(tasks)
    /\ outcome[k] = Nothing
    /\ \A v \in Workers : wstate[v].task # k
    /\ wstate' = [wstate EXCEPT ![w] = [pc |-> "find_exact", task |-> k]]
    /\ UNCHANGED <<tasks, outcome>>
    /\ UNCHANGED <<index_vars, scan_vars>>
    /\ UNCHANGED conc_frame

\* exact = index.find_exact(text); if exact: append the exact entry; continue
WorkerFindExact(w) ==
    /\ phase = "conc"
    /\ wstate[w].pc = "find_exact"
    /\ LET k == wstate[w].task
           got == find_exact(Index, example_text(tasks[k]))
       IN  /\ _exact' = got.index._exact
           /\ _ngrams' = got.index._ngrams
           /\ IF got.ret # <<>>
              THEN /\ outcome' = [outcome EXCEPT ![k] =
                          Some([EmptyLists EXCEPT !.exact_matches = <<exact_entry(tasks[k], got.ret)>>])]
                   /\ wstate' = [wstate EXCEPT ![w] = WorkerIdle]
              ELSE /\ outcome' = outcome
                   /\ wstate' = [wstate EXCEPT ![w].pc = "find_near"]
    /\ UNCHANGED <<tasks, calls, ret, scan_vars>>
    /\ UNCHANGED conc_frame

\* near = index.find_near(text, threshold); append the near entry or the
\* example id to clean
WorkerFindNear(w) ==
    /\ phase = "conc"
    /\ wstate[w].pc = "find_near"
    /\ LET k == wstate[w].task
           got == find_near(Index, example_text(tasks[k]), DefaultThreshold)
       IN  /\ _exact' = got.index._exact
           /\ _ngrams' = got.index._ngrams
           /\ outcome' = [outcome EXCEPT ![k] =
                  Some(IF got.ret # <<>>
                       THEN [EmptyLists EXCEPT !.near_matches = <<near_entry(tasks[k], got.ret)>>]
                       ELSE [EmptyLists EXCEPT !.clean = <<tasks[k].example_id>>])]
           /\ wstate' = [wstate EXCEPT ![w] = WorkerIdle]
    /\ UNCHANGED <<tasks, calls, ret, scan_vars>>
    /\ UNCHANGED conc_frame

NextConc ==
    \/ \E sample \in ConcRecords : BuildStep(sample)
    \/ ConcStart
    \/ \E w \in Workers, k \in 1..MaxExamples : WorkerTake(w, k)
    \/ \E w \in Workers : WorkerFindExact(w)
    \/ \E w \in Workers : WorkerFindNear(w)

SpecConc == Init /\ [][NextConc]_vars

----------------------------------------------------------------------------
\* TextFingerprintIndex driven through its methods in any order

ApiAddTexts == {TextA, TextAv, TextShort, TextBang}
ApiQueryTexts == {TextAv, TextB, TextOther, TextEmpty}
ApiTexts == ApiAddTexts \cup ApiQueryTexts
ApiSampleIds == {"s1", "s2"}

InitIndex ==
    /\ UtilIdle
    /\ NormIdle
    /\ LshIdle
    /\ MhIdle
    /\ RunIdle
    /\ ConcIdle
    /\ IndexIdle
    /\ phase = "api"
    /\ consumed = <<>> /\ built = Nothing /\ scanned = <<>>
    /\ exact_matches = <<>> /\ near_matches = <<>> /\ clean = <<>>
    /\ report = Nothing

\* index.add(sample_id, text)
ApiAdd(sample_id, text) ==
    /\ phase = "api"
    /\ Len(calls) < MaxSamples
    /\ LET next == add(Index, sample_id, text)
       IN  /\ _exact' = next._exact
           /\ _ngrams' = next._ngrams
    /\ calls' = Append(calls, [sample_id |-> sample_id, text |-> text])
    /\ UNCHANGED ret
    /\ UNCHANGED index_frame

\* index.find_exact(text); ret keeps the list as it was returned
ApiFindExact(text) ==
    /\ phase = "api"
    /\ LET got == find_exact(Index, text)
       IN  /\ ret' = Some([op |-> "find_exact", text |-> text, value |-> got.ret,
                           ncalls |-> Len(calls)])
           /\ _exact' = got.index._exact
           /\ _ngrams' = got.index._ngrams
    /\ UNCHANGED calls
    /\ UNCHANGED index_frame

\* index.find_near(text, threshold)
ApiFindNear(text) ==
    /\ phase = "api"
    /\ LET got == find_near(Index, text, DefaultThreshold)
       IN  /\ ret' = Some([op |-> "find_near", text |-> text, value |-> got.ret,
                           ncalls |-> Len(calls)])
           /\ _exact' = got.index._exact
           /\ _ngrams' = got.index._ngrams
    /\ UNCHANGED calls
    /\ UNCHANGED index_frame

NextIndex ==
    \/ \E sample_id \in ApiSampleIds, text \in ApiAddTexts : ApiAdd(sample_id, text)
    \/ \E text \in ApiQueryTexts : ApiFindExact(text)
    \/ \E text \in ApiQueryTexts : ApiFindNear(text)

SpecIndex == InitIndex /\ [][NextIndex]_vars

----------------------------------------------------------------------------
\* LSHIndex driven through its methods: an index is constructed with some
\* (num_bands, rows_per_band) and fed MinHash objects of one num_hashes

MaxBands == 2       \* largest num_bands constructed
MaxRows == 2        \* largest rows_per_band constructed
MaxHashes == 3      \* largest num_hashes of the MinHash objects
MaxDocs == 2        \* LSHIndex.add calls on one index

LshTexts == {TextA, TextB, TextShort}     \* texts of the documents added
LshQueryTexts == {TextA, TextOther}       \* texts of the queries
LshDocIds == {"d1", "d2"}
QueryThreshold == <<7, 10>>     \* threshold=0.7 of the demo's scan

\* thresholds passed to LSHIndex.query: the demo's, and values that an
\* estimate over few hash positions can equal
LshThresholds == {QueryThreshold, <<1, 2>>, <<1, 1>>}

\* MinHash(num_hashes).compute(text) for the texts and signature lengths of
\* the harness
LshSignatures ==
    [h \in 1..MaxHashes |->
        [t \in LshTexts \cup LshQueryTexts |-> MinHash_compute(h, t, ShingleSize)]]

InitLSH ==
    /\ UtilIdle
    /\ NormIdle
    /\ MhIdle
    /\ RunIdle
    /\ IndexIdle
    /\ ScanIdle
    /\ ConcIdle
    /\ \E b \in 1..MaxBands, r \in 1..MaxRows : lsh = Some(LSHIndex_init(b, r))
    /\ lsh_num_hashes \in 1..MaxHashes
    /\ lsh_calls = <<>>
    /\ lsh_ret = Nothing

\* lsh.add(doc_id, MinHash(num_hashes).compute(text))
LshAdd(doc_id, text) ==
    /\ lsh # Nothing
    /\ Len(lsh_calls) < MaxDocs
    /\ lsh' = Some(lsh_add(lsh[1], doc_id, LshSignatures[lsh_num_hashes][text]))
    /\ lsh_calls' = Append(lsh_calls, [doc_id |-> doc_id, text |-> text])
    /\ lsh_ret' = Nothing
    /\ UNCHANGED lsh_num_hashes
    /\ UNCHANGED lsh_frame

\* lsh.query(MinHash(num_hashes).compute(text), threshold)
LshQuery(text, threshold) ==
    /\ lsh # Nothing
    /\ lsh_ret' = Some([text |-> text,
                        threshold |-> threshold,
                        value |-> lsh_query(lsh[1], LshSignatures[lsh_num_hashes][text], threshold)])
    /\ UNCHANGED <<lsh, lsh_num_hashes, lsh_calls>>
    /\ UNCHANGED lsh_frame

NextLSH ==
    \/ \E doc_id \in LshDocIds, text \in LshTexts : LshAdd(doc_id, text)
    \/ \E text \in LshQueryTexts, threshold \in LshThresholds : LshQuery(text, threshold)

SpecLSH == InitLSH /\ [][NextLSH]_vars

----------------------------------------------------------------------------
\* run_contamination_scan: the benchmark is loaded, the index is built from
\* the manifest at manifest_path, the examples are scanned, and the report
\* is written to output_path and returned.

\* a line of a JSONL manifest: a record that validates as a TrainingSample
\* (its text key may be absent), a JSON object without sample_id, or a line
\* that is not JSON
ManifestLines ==
    {[kind |-> "record", sample_id |-> "s1", text |-> Some(TextA)],
     [kind |-> "record", sample_id |-> "s2", text |-> Nothing],
     [kind |-> "no_sample_id", sample_id |-> "", text |-> Some(TextA)],
     [kind |-> "not_json", sample_id |-> "", text |-> Nothing]}

\* the files that manifest_path may name
ManifestFiles ==
    {[status |-> st, suffix |-> ".jsonl", lines |-> <<>>] : st \in {"missing", "unreadable"}}
    \cup {[status |-> "ok", suffix |-> sfx, lines |-> ls] :
              sfx \in {".jsonl", ".csv"},
              ls \in UNION {[1..n -> ManifestLines] : n \in 0..MaxSamples}}

RunExamples ==
    {[example_id |-> "e1", inputs |-> Some(TextAv), question |-> Nothing],
     [example_id |-> "e2", inputs |-> Some(TextB), question |-> Nothing]}

\* load_manifest treating a file it cannot load as an empty manifest
load_manifest_open_lenient(file) == Nothing

\* load_manifest up to the open() of load_manifest_jsonl: the exception
\* raised, if any
load_manifest_open(file) ==
    IF file.suffix # ".jsonl" THEN Some("ValueError")
    ELSE IF file.status = "missing" THEN Some("FileNotFoundError")
    ELSE IF file.status = "unreadable" THEN Some("PermissionError")
    ELSE Nothing

\* json.loads(line) and TrainingSample.model_validate(data): the exception
\* raised, if any
parse_error(line) ==
    IF line.kind = "not_json" THEN Some("JSONDecodeError")
    ELSE IF line.kind = "no_sample_id" THEN Some("ValidationError")
    ELSE Nothing

\* the TrainingSample of a line without parse error
parse_sample(line) == [sample_id |-> line.sample_id, text |-> line.text]

\* the for loop left before the generator is exhausted
build_done_early(file, pos) == TRUE

\* the for loop of build_training_index is over: the generator is exhausted
build_done(file, pos) == pos = Len(file.lines)

\* report["benchmark"], report["split"], report["manifest"]
run_report(rep) ==
    rep @@ [benchmark |-> "benchmark_name", split |-> "validation", manifest |-> "manifest_path"]

InitRun ==
    /\ UtilIdle
    /\ NormIdle
    /\ LshIdle
    /\ MhIdle
    /\ ConcIdle
    /\ IndexIdle
    /\ phase = "start"
    /\ consumed = <<>> /\ built = Nothing /\ scanned = <<>>
    /\ exact_matches = <<>> /\ near_matches = <<>> /\ clean = <<>>
    /\ report = Nothing
    /\ manifest \in {Some(f) : f \in ManifestFiles}
    /\ examples \in UNION {[1..n -> RunExamples] : n \in 0..MaxExamples}
    /\ output_path \in {Nothing, Some("report.json")}
    /\ cursor = 0
    /\ error = Nothing
    /\ output_file = Nothing

\* build_training_index creates the index and asks load_manifest for the
\* first sample: the suffix is looked at and the file is opened
RunOpen ==
    /\ phase = "start"
    /\ LET exc == load_manifest_open(manifest[1])
       IN  /\ error' = exc
           /\ phase' = IF exc = Nothing THEN "build" ELSE "raised"
    /\ UNCHANGED <<manifest, examples, output_path, cursor, output_file>>
    /\ UNCHANGED <<consumed, built, scanned, exact_matches, near_matches, clean, report>>
    /\ UNCHANGED index_vars
    /\ UNCHANGED run_frame

\* one iteration of the loop of build_training_index: the next line is
\* parsed, validated and, with a non-empty text, added
RunBuildStep ==
    /\ phase = "build"
    /\ cursor < Len(manifest[1].lines)
    /\ cursor' = cursor + 1
    /\ LET line == manifest[1].lines[cursor + 1]
           exc == parse_error(line)
           sample == parse_sample(line)
           text == sample_text(sample)
       IN  IF exc # Nothing
           THEN /\ error' = exc
                /\ phase' = "raised"
                /\ UNCHANGED <<consumed, _exact, _ngrams, calls>>
           ELSE /\ consumed' = Append(consumed, sample)
                /\ UNCHANGED <<error, phase>>
                /\ IF text # <<>>
                   THEN LET next == add(Index, sample.sample_id, text)
                        IN  /\ _exact' = next._exact
                            /\ _ngrams' = next._ngrams
                            /\ calls' = Append(calls, [sample_id |-> sample.sample_id, text |-> text])
                   ELSE UNCHANGED <<_exact, _ngrams, calls>>
    /\ UNCHANGED <<manifest, examples, output_path, output_file>>
    /\ UNCHANGED <<ret, built, scanned, exact_matches, near_matches, clean, report>>
    /\ UNCHANGED run_frame

\* build_training_index returns the index; scan_benchmark starts on it
RunBuildReturn ==
    /\ phase = "build"
    /\ build_done(manifest[1], cursor)
    /\ phase' = "scan"
    /\ built' = Some(Index)
    /\ UNCHANGED <<consumed, scanned, exact_matches, near_matches, clean, report>>
    /\ UNCHANGED index_vars
    /\ UNCHANGED run_vars
    /\ UNCHANGED run_frame

\* scan_benchmark, one iteration of its loop: the next example
RunScanStep ==
    /\ phase = "scan"
    /\ Len(scanned) < Len(examples)
    /\ LET example == examples[Len(scanned) + 1]
           next == scan_example(Lists, Index, example, DefaultThreshold)
       IN  /\ scanned' = Append(scanned, example)
           /\ exact_matches' = next.lists.exact_matches
           /\ near_matches' = next.lists.near_matches
           /\ clean' = next.lists.clean
           /\ _exact' = next.index._exact
           /\ _ngrams' = next.index._ngrams
    /\ UNCHANGED <<calls, ret, phase, consumed, built, report>>
    /\ UNCHANGED run_vars
    /\ UNCHANGED run_frame

\* scan_benchmark returns; the report is completed, written to output_path
\* when one is given, and returned
RunReturn ==
    /\ phase = "scan"
    /\ Len(scanned) = Len(examples)
    /\ phase' = "done"
    /\ report' = Some(run_report(make_report(examples, Lists)))
    /\ output_file' = IF output_path # Nothing THEN report' ELSE output_file
    /\ UNCHANGED <<consumed, built, scanned, exact_matches, near_matches, clean>>
    /\ UNCHANGED <<manifest, examples, output_path, cursor, error>>
    /\ UNCHANGED index_vars
    /\ UNCHANGED run_frame

NextRun ==
    \/ RunOpen
    \/ RunBuildStep
    \/ RunBuildReturn
    \/ RunScanStep
    \/ RunReturn

SpecRun == InitRun /\ [][NextRun]_vars

----------------------------------------------------------------------------
\* MinHash harness: two MinHash objects are computed for a text x, each on
\* its own, and one for a text y; jaccard compares them.

MhTexts == {TextA, TextAv, TextB, TextShort, TextOther, TextBang, TextEmpty}

EmptyMh == [first |-> Nothing, second |-> Nothing, other |-> Nothing]

InitMinHash ==
    /\ UtilIdle
    /\ NormIdle
    /\ RunIdle
    /\ IndexIdle
    /\ ScanIdle
    /\ LshIdle
    /\ ConcIdle
    /\ \E x \in MhTexts, y \in MhTexts, n \in 1..MaxHashes :
           mh_in = Some([x |-> x, y |-> y, num_hashes |-> n])
    /\ mh_sig = Some(EmptyMh)
    /\ mh_sim = Some([self |-> Nothing, other |-> Nothing])

\* MinHash(num_hashes).compute(text): which names the object computed
MhCompute(which) ==
    /\ mh_in # Nothing
    /\ mh_sig[1][which] = Nothing
    /\ LET text == IF which = "other" THEN mh_in[1].y ELSE mh_in[1].x
       IN  mh_sig' = Some([mh_sig[1] EXCEPT ![which] =
                              Some(MinHash_compute(mh_in[1].num_hashes, text, ShingleSize))])
    /\ UNCHANGED <<mh_in, mh_sim>>
    /\ UNCHANGED mh_frame

\* first.jaccard(second) and first.jaccard(other)
MhJaccard(which) ==
    /\ mh_in # Nothing
    /\ mh_sig[1].first # Nothing
    /\ \/ /\ which = "self"
          /\ mh_sig[1].second # Nothing
          /\ mh_sim' = Some([mh_sim[1] EXCEPT !.self =
                                 Some(jaccard(mh_sig[1].first[1], mh_sig[1].second[1]))])
       \/ /\ which = "other"
          /\ mh_sig[1].other # Nothing
          /\ mh_sim' = Some([mh_sim[1] EXCEPT !.other =
                                 Some(jaccard(mh_sig[1].first[1], mh_sig[1].other[1]))])
    /\ UNCHANGED <<mh_in, mh_sig>>
    /\ UNCHANGED mh_frame

NextMinHash ==
    \/ \E which \in {"first", "second", "other"} : MhCompute(which)
    \/ \E which \in {"self", "other"} : MhJaccard(which)

SpecMinHash == InitMinHash /\ [][NextMinHash]_vars

----------------------------------------------------------------------------
\* Normalizer harness: draw x, derive a variant by edits that change only
\* case, whitespace runs and attached punctuation, then normalize.

NormAlphabet == {"a", " ", ",", "U+FF21", "U+210C"}

RECURSIVE StringsUpTo(_, _)
StringsUpTo(alphabet, n) ==
    IF n = 0 THEN {<<>>}
    ELSE LET shorter == StringsUpTo(alphabet, n - 1)
         IN  shorter \cup {Append(s, c) : s \in {t \in shorter : Len(t) = n - 1}, c \in alphabet}

InsertAt(text, i, c) == SubSeq(text, 1, i) \o <<c>> \o SubSeq(text, i + 1, Len(text))

InitNorm ==
    /\ UtilIdle
    /\ src_text \in StringsUpTo(NormAlphabet, MaxTextLen)
    /\ var_text = src_text
    /\ canon1 = None /\ canon2 = None /\ canon_var = None
    /\ hash1 = None /\ hash_var = None
    /\ npc = "edit"
    /\ IndexIdle
    /\ ScanIdle
    /\ LshIdle
    /\ ConcIdle
    /\ MhIdle
    /\ RunIdle

\* change the case of one letter of the variant
ToggleCase(i) ==
    /\ npc = "edit"
    /\ i \in 1..Len(var_text)
    /\ LET c == var_text[i]
           d == IF char_lower(c) # c THEN char_lower(c) ELSE char_upper(c)
       IN  /\ d # c
           /\ var_text' = [var_text EXCEPT ![i] = d]
    /\ UNCHANGED <<src_text, canon1, canon2, canon_var, hash1, hash_var, npc>>
    /\ UNCHANGED norm_frame

\* lengthen a whitespace run of the variant, or add leading / trailing whitespace
WidenWhitespace(i, c) ==
    /\ npc = "edit"
    /\ Len(var_text) < MaxVarLen
    /\ i \in 0..Len(var_text)
    /\ c \in Whitespace
    /\ \/ i = 0
       \/ i = Len(var_text)
       \/ i >= 1 /\ IsSpace(var_text[i])
       \/ i < Len(var_text) /\ IsSpace(var_text[i + 1])
    /\ var_text' = InsertAt(var_text, i, c)
    /\ UNCHANGED <<src_text, canon1, canon2, canon_var, hash1, hash_var, npc>>
    /\ UNCHANGED norm_frame

\* attach a punctuation character to a word of the variant
AttachPunct(i, p) ==
    /\ npc = "edit"
    /\ Len(var_text) < MaxVarLen
    /\ i \in 0..Len(var_text)
    /\ p \in AttachedPunctuation
    /\ \/ i >= 1 /\ IsWord(var_text[i])
       \/ i < Len(var_text) /\ IsWord(var_text[i + 1])
    /\ var_text' = InsertAt(var_text, i, p)
    /\ UNCHANGED <<src_text, canon1, canon2, canon_var, hash1, hash_var, npc>>
    /\ UNCHANGED norm_frame

\* apply normalize_text (twice to x, once to the variant) and compute_text_hash
NormalizeTexts ==
    /\ npc = "edit"
    /\ canon1' = normalize_text(src_text)
    /\ canon2' = normalize_text(normalize_text(src_text))
    /\ canon_var' = normalize_text(var_text)
    /\ hash1' = compute_text_hash(src_text, TRUE)
    /\ hash_var' = compute_text_hash(var_text, TRUE)
    /\ npc' = "done"
    /\ UNCHANGED <<src_text, var_text>>
    /\ UNCHANGED norm_frame

NextNorm ==
    \/ \E i \in 1..MaxVarLen : ToggleCase(i)
    \/ \E i \in 0..MaxVarLen, c \in Whitespace : WidenWhitespace(i, c)
    \/ \E i \in 0..MaxVarLen, p \in AttachedPunctuation : AttachPunct(i, p)
    \/ NormalizeTexts

SpecNorm == InitNorm /\ [][NextNorm]_vars

----------------------------------------------------------------------------
\* benchmarks/subtitle_align.py: align_subtitles_to_frames

MaxTime == 2        \* timestamps are drawn from 0..MaxTime
MaxSubs == 2        \* longest subtitle list
MaxFrames == 2      \* longest list of frame timestamps

SubtitleSegment(start_ms, end_ms, text) ==
    [start_ms |-> start_ms, end_ms |-> end_ms, text |-> text]

AlignedSubtitle(frame_idx, timestamp_ms, text) ==
    [frame_idx |-> frame_idx, timestamp_ms |-> timestamp_ms, text |-> text]

\* mutation of relevant_texts: only the subtitles showing at the frame time
RECURSIVE relevant_texts_active_only(_, _, _)
relevant_texts_active_only(subs, frame_ts, window) ==
    IF subs = <<>> THEN <<>>
    ELSE LET sub == Head(subs)
             rest == relevant_texts_active_only(Tail(subs), frame_ts, window)
         IN  IF sub.start_ms <= frame_ts /\ frame_ts <= sub.end_ms
             THEN <<sub.text>> \o rest
             ELSE rest

\* the inner loop over the subtitles, for one frame
RECURSIVE relevant_texts(_, _, _)
relevant_texts(subs, frame_ts, window) ==
    IF subs = <<>> THEN <<>>
    ELSE LET sub == Head(subs)
             rest == relevant_texts(Tail(subs), frame_ts, window)
         IN  IF sub.start_ms <= frame_ts /\ frame_ts <= sub.end_ms
             THEN <<sub.text>> \o rest
             ELSE IF sub.end_ms <= frame_ts /\ frame_ts <= sub.end_ms + window
             THEN <<sub.text>> \o rest
             ELSE rest

align_subtitles_to_frames(subs, frames, window) ==
    [i \in 1..Len(frames) |->
        AlignedSubtitle(i - 1, frames[i],
                        strip(join_space(relevant_texts(subs, frames[i], window))))]

TimeValues == 0..MaxTime
Windows == {-1, 0, 1}

\* the subtitle at position i of a list has a text of its own
SubtitleText(i) == <<"s", ToString(i)>>

SubtitleLists ==
    UNION {{[i \in 1..n |-> SubtitleSegment(f[i][1], f[i][2], SubtitleText(i))] :
                f \in [1..n -> TimeValues \X TimeValues]} : n \in 0..MaxSubs}

FrameLists == UNION {[1..n -> TimeValues] : n \in 0..MaxFrames}

InitAlign ==
    /\ EngineIdle
    /\ CacheIdle
    /\ ResumeIdle
    /\ ShardIdle
    /\ RegIdle
    /\ subtitles \in SubtitleLists
    /\ frame_timestamps_ms \in FrameLists
    /\ window_ms \in Windows
    /\ aligned = Nothing

Align ==
    /\ aligned = Nothing
    /\ aligned' = Some(align_subtitles_to_frames(subtitles, frame_timestamps_ms, window_ms))
    /\ UNCHANGED <<subtitles, frame_timestamps_ms, window_ms>>
    /\ UNCHANGED align_frame

NextAlign == Align

SpecAlign == InitAlign /\ [][NextAlign]_vars

----------------------------------------------------------------------------
\* core/cache.py: TwoLayerCache.  A key is the digest _make_key gives; the
\* digest is injective on the key data, so a key stands for its key data.

MaxMemoryLimit == 2 \* largest memory_limit constructed
MaxCacheOps == 4    \* calls on one cache

CacheKeys == {"k1", "k2", "k3"}
CacheValues == {"v1", "v2"}
StaleValue == "v0"  \* a value pickled by an earlier process

TwoLayerCache_init(disk_path, memory_limit) ==
    [_memory |-> EmptyDict, _access_order |-> <<>>,
     _memory_limit |-> memory_limit, _disk_path |-> disk_path]

\* list.remove(x): the first occurrence
RECURSIVE list_remove(_, _)
list_remove(list, x) ==
    IF list = <<>> THEN <<>>
    ELSE IF Head(list) = x THEN Tail(list)
    ELSE <<Head(list)>> \o list_remove(Tail(list), x)

dict_del(d, key) == [k \in DOMAIN d \ {key} |-> d[k]]
dict_set(d, key, value) == [k \in DOMAIN d \cup {key} |-> IF k = key THEN value ELSE d[k]]

\* _put_memory: the object afterwards, or the exception of list.pop(0)
_put_memory(self, key, value) ==
    IF key \in DOMAIN self._memory
    THEN [raised |-> Nothing,
          self |-> [self EXCEPT !._access_order = Append(list_remove(@, key), key),
                                !._memory = dict_set(@, key, value)]]
    ELSE IF Cardinality(DOMAIN self._memory) >= self._memory_limit
    THEN IF self._access_order = <<>>
         THEN [raised |-> Some("IndexError"), self |-> self]
         ELSE LET evict == Head(self._access_order)
              IN  [raised |-> Nothing,
                   self |-> [self EXCEPT !._access_order = Append(Tail(@), key),
                                         !._memory = dict_set(dict_del(@, evict), key, value)]]
    ELSE [raised |-> Nothing,
          self |-> [self EXCEPT !._access_order = Append(@, key),
                                !._memory = dict_set(@, key, value)]]

\* mutation of get: a memory hit does not move the key in the access order
get_no_touch(self, files, key) ==
    IF key \in DOMAIN self._memory
    THEN [raised |-> Nothing, layer |-> "memory", ret |-> Some(self._memory[key]), self |-> self]
    ELSE IF self._disk_path # Nothing /\ key \in DOMAIN files
    THEN LET loaded == _put_memory(self, key, files[key])
         IN  [raised |-> loaded.raised, layer |-> "disk",
              ret |-> IF loaded.raised = Nothing THEN Some(files[key]) ELSE Nothing,
              self |-> loaded.self]
    ELSE [raised |-> Nothing, layer |-> "miss", ret |-> Nothing, self |-> self]

\* TwoLayerCache.get: ret is None (Nothing) or the value
get(self, files, key) ==
    IF key \in DOMAIN self._memory
    THEN [raised |-> Nothing, layer |-> "memory", ret |-> Some(self._memory[key]),
          self |-> [self EXCEPT !._access_order = Append(list_remove(@, key), key)]]
    ELSE IF self._disk_path # Nothing /\ key \in DOMAIN files
    THEN LET loaded == _put_memory(self, key, files[key])
         IN  [raised |-> loaded.raised, layer |-> "disk",
              ret |-> IF loaded.raised = Nothing THEN Some(files[key]) ELSE Nothing,
              self |-> loaded.self]
    ELSE [raised |-> Nothing, layer |-> "miss", ret |-> Nothing, self |-> self]

\* mutation of put: the value is kept in memory only
put_memory_only(self, files, key, value) ==
    LET stored == _put_memory(self, key, value)
    IN  [raised |-> stored.raised, self |-> stored.self, files |-> files]

\* TwoLayerCache.put
put(self, files, key, value) ==
    LET stored == _put_memory(self, key, value)
    IN  [raised |-> stored.raised, self |-> stored.self,
         files |-> IF stored.raised = Nothing /\ self._disk_path # Nothing
                   THEN dict_set(files, key, value) ELSE files]

\* TwoLayerCache.clear
clear(self) == [self EXCEPT !._memory = EmptyDict, !._access_order = <<>>]

\* a cache without a disk path, or with one whose directory is empty or holds
\* a file of an earlier process
InitCache ==
    /\ EngineIdle
    /\ AlignIdle
    /\ ResumeIdle
    /\ ShardIdle
    /\ RegIdle
    /\ \E memory_limit \in 0..MaxMemoryLimit, disk_path \in {Nothing, Some("cache_dir")} :
          cache = Some(TwoLayerCache_init(disk_path, memory_limit))
    /\ disk \in {EmptyDict} \cup
                (IF cache[1]._disk_path # Nothing THEN {[k \in {"k1"} |-> StaleValue]} ELSE {})
    /\ cache_calls = <<>>

CacheGet(key) ==
    /\ cache # Nothing
    /\ Len(cache_calls) < MaxCacheOps
    /\ LET got == get(cache[1], disk, key)
       IN  /\ cache' = Some(got.self)
           /\ cache_calls' = Append(cache_calls,
                  [op |-> "get", key |-> key, value |-> Nothing, ret |-> got.ret,
                   layer |-> got.layer, raised |-> got.raised])
    /\ UNCHANGED disk
    /\ UNCHANGED cache_frame

CachePut(key, value) ==
    /\ cache # Nothing
    /\ Len(cache_calls) < MaxCacheOps
    /\ LET done == put(cache[1], disk, key, value)
       IN  /\ cache' = Some(done.self)
           /\ disk' = done.files
           /\ cache_calls' = Append(cache_calls,
                  [op |-> "put", key |-> key, value |-> Some(value), ret |-> Nothing,
                   layer |-> "none", raised |-> done.raised])
    /\ UNCHANGED cache_frame

CacheClear ==
    /\ cache # Nothing
    /\ Len(cache_calls) < MaxCacheOps
    /\ cache' = Some(clear(cache[1]))
    /\ cache_calls' = Append(cache_calls,
           [op |-> "clear", key |-> "none", value |-> Nothing, ret |-> Nothing,
            layer |-> "none", raised |-> Nothing])
    /\ UNCHANGED disk
    /\ UNCHANGED cache_frame

NextCache ==
    \/ \E key \in CacheKeys : CacheGet(key)
    \/ \E key \in CacheKeys, value \in CacheValues : CachePut(key, value)
    \/ CacheClear

SpecCache == InitCache /\ [][NextCache]_vars

----------------------------------------------------------------------------
\* eval/resumable.py: ResumableRunner.  A line of the output file is the
\* record json.dumps wrote; extra carries no example_id of its own.

MaxRecords == 3     \* record calls over all runs

ResumeExampleIds == {"e1", "e2", "e3"}

\* the lists handed to pending: the examples in two orders, and one with a
\* repeated id
PendingLists ==
    {<<[example_id |-> "e1"], [example_id |-> "e2"], [example_id |-> "e3"]>>,
     <<[example_id |-> "e3"], [example_id |-> "e1"]>>,
     <<[example_id |-> "e2"], [example_id |-> "e2"]>>}

\* _load_completed over the lines of the file
_load_completed(file) ==
    IF file = Nothing THEN {}
    ELSE {file[1][i].example_id : i \in 1..Len(file[1])}

\* ResumableRunner.__init__
ResumableRunner_init(file) == [_completed |-> _load_completed(file)]

is_completed(self, example_id) == example_id \in self._completed

\* mutation of record: the line is not written
record_memory_only(self, file, prediction) ==
    [file |-> file,
     self |-> [self EXCEPT !._completed = @ \cup {prediction.example_id}]]

\* ResumableRunner.record: open(..., "a") creates the file
record(self, file, prediction) ==
    [file |-> Some((IF file = Nothing THEN <<>> ELSE file[1])
                     \o <<[example_id |-> prediction.example_id,
                           raw_output |-> prediction.raw_output]>>),
     self |-> [self EXCEPT !._completed = @ \cup {prediction.example_id}]]

\* pending(examples) run to its end with no call in between
RECURSIVE pending(_, _)
pending(self, exs) ==
    IF exs = <<>> THEN <<>>
    ELSE IF ~is_completed(self, Head(exs).example_id)
         THEN <<Head(exs)>> \o pending(self, Tail(exs))
         ELSE pending(self, Tail(exs))

\* one next() of the generator: the loop runs from position pos + 1 to the
\* first example that is not completed, or to the end of the list
RECURSIVE pending_next(_, _)
pending_next(self, gen) ==
    IF gen.pos >= Len(gen.exs) THEN [gen EXCEPT !.stopped = TRUE]
    ELSE LET ex == gen.exs[gen.pos + 1]
             take == ~is_completed(self, ex.example_id)
             step == [gen EXCEPT !.pos = @ + 1, !.trace = Append(@, take)]
         IN  IF take THEN step ELSE pending_next(self, step)

InitResume ==
    /\ EngineIdle
    /\ AlignIdle
    /\ CacheIdle
    /\ ShardIdle
    /\ RegIdle
    /\ results_file \in {Nothing, Some(<<>>)}
    /\ runner = Some(ResumableRunner_init(results_file))
    /\ recorded = <<>>
    /\ pending_gen = Nothing

\* the process ends and a new ResumableRunner is constructed on the file
Restart ==
    /\ runner # Nothing
    /\ runner' = Some(ResumableRunner_init(results_file))
    /\ pending_gen' = Nothing
    /\ UNCHANGED <<results_file, recorded>>
    /\ UNCHANGED resume_frame

Record(example_id) ==
    /\ runner # Nothing
    /\ Len(recorded) < MaxRecords
    /\ LET done == record(runner[1], results_file,
                          [example_id |-> example_id, raw_output |-> "out"])
       IN  /\ runner' = Some(done.self)
           /\ results_file' = done.file
    /\ recorded' = Append(recorded, example_id)
    /\ UNCHANGED pending_gen
    /\ UNCHANGED resume_frame

\* runner.pending(examples): nothing runs until the first next()
PendingStart(exs) ==
    /\ runner # Nothing
    /\ pending_gen = Nothing
    /\ pending_gen' = Some([exs |-> exs, pos |-> 0, trace |-> <<>>, seen |-> <<>>,
                            stopped |-> FALSE])
    /\ UNCHANGED <<results_file, runner, recorded>>
    /\ UNCHANGED resume_frame

\* next() on the generator; seen keeps, for every position the loop passed,
\* the ids recorded when it did
PendingNext ==
    /\ runner # Nothing
    /\ pending_gen # Nothing
    /\ ~pending_gen[1].stopped
    /\ LET after == pending_next(runner[1], pending_gen[1])
       IN  pending_gen' = Some([after EXCEPT !.seen =
               @ \o [i \in 1..(after.pos - pending_gen[1].pos) |-> SeqToSet(recorded)]])
    /\ UNCHANGED <<results_file, runner, recorded>>
    /\ UNCHANGED resume_frame

NextResume ==
    \/ Restart
    \/ \E example_id \in ResumeExampleIds : Record(example_id)
    \/ \E exs \in PendingLists : PendingStart(exs)
    \/ PendingNext

SpecResume == InitResume /\ [][NextResume]_vars

----------------------------------------------------------------------------
\* eval/distributed.py: shard_examples

MaxShardLen == 4    \* longest examples list
MaxShards == 3      \* largest num_shards

ShardItems == {"a", "b"}

\* the iterations of the loop that yield, as (i, ex) of enumerate, with the
\* contiguous-block test i // num_shards == shard_id in place of the modulus
shard_yields_blocks(exs, shard_id, num_shards) ==
    SelectSeq([k \in 1..Len(exs) |-> [i |-> k - 1, ex |-> exs[k]]],
              LAMBDA y : y.i \div num_shards = shard_id)

\* the iterations of the loop that yield, as (i, ex) of enumerate
shard_yields(exs, shard_id, num_shards) ==
    SelectSeq([k \in 1..Len(exs) |-> [i |-> k - 1, ex |-> exs[k]]],
              LAMBDA y : y.i % num_shards = shard_id)

\* shard_examples: the examples the generator yields
shard_examples(exs, shard_id, num_shards) ==
    LET ys == shard_yields(exs, shard_id, num_shards)
    IN  [k \in 1..Len(ys) |-> ys[k].ex]

InitShard ==
    /\ EngineIdle
    /\ AlignIdle
    /\ CacheIdle
    /\ ResumeIdle
    /\ RegIdle
    /\ \E n \in 0..MaxShardLen, num_shards \in 1..MaxShards :
          \E exs \in [1..n -> ShardItems] :
              shard_in = Some([examples |-> exs, num_shards |-> num_shards])
    /\ shard_out = EmptyDict

\* the process of rank shard_id consumes list(shard_examples(...))
ShardRun(shard_id) ==
    /\ shard_in # Nothing
    /\ shard_id < shard_in[1].num_shards
    /\ shard_id \notin DOMAIN shard_out
    /\ shard_out' = (shard_id :>
                        [yields |-> shard_yields(shard_in[1].examples, shard_id, shard_in[1].num_shards),
                         examples |-> shard_examples(shard_in[1].examples, shard_id,
                                                     shard_in[1].num_shards)])
                    @@ shard_out
    /\ UNCHANGED shard_in
    /\ UNCHANGED shard_frame

NextShard == \E shard_id \in 0..(MaxShards - 1) : ShardRun(shard_id)

SpecShard == InitShard /\ [][NextShard]_vars

----------------------------------------------------------------------------
\* core/registry.py: Registry

RegistryNames == {"mmmu", "dummy"}
RegistryFactories == {"f1", "f2"}

\* the names in the order sorted() gives them
SortedNames == <<"dummy", "mmmu">>

Registry_init(name) == [_name |-> name, _registry |-> EmptyDict]

\* mutation of decorator: the factory is stored without the duplicate check
decorator_overwrite(self, name, factory) ==
    [raised |-> Nothing, ret |-> Some(factory),
     self |-> [self EXCEPT !._registry = dict_set(@, name, factory)]]

\* the decorator register(name) returned, applied to a factory
decorator(self, name, factory) ==
    IF name \in DOMAIN self._registry
    THEN [raised |-> Some("ValueError"), ret |-> Nothing, self |-> self]
    ELSE [raised |-> Nothing, ret |-> Some(factory),
          self |-> [self EXCEPT !._registry = dict_set(@, name, factory)]]

\* Registry.get
registry_get(self, name) ==
    IF name \notin DOMAIN self._registry
    THEN [raised |-> Some("KeyError"), ret |-> Nothing]
    ELSE [raised |-> Nothing, ret |-> Some(self._registry[name])]

\* Registry.create: the instance the factory makes
registry_create(self, name) ==
    LET got == registry_get(self, name)
    IN  IF got.raised # Nothing THEN got
        ELSE [raised |-> Nothing, ret |-> Some([made_by |-> got.ret[1]])]

\* Registry.list
registry_list(self) == SelectSeq(SortedNames, LAMBDA n : n \in DOMAIN self._registry)

InitRegistry ==
    /\ EngineIdle
    /\ AlignIdle
    /\ CacheIdle
    /\ ResumeIdle
    /\ ShardIdle
    /\ registry = Some(Registry_init("benchmark"))
    /\ decorators = {}
    /\ first_reg = EmptyDict
    /\ reg_ret = Nothing

\* registry.register(name): returns the decorator, checks nothing yet
RegRegister(name) ==
    /\ registry # Nothing
    /\ decorators' = decorators \cup {name}
    /\ reg_ret' = Some([op |-> "register", name |-> name, factory |-> Nothing,
                        before |-> registry[1]._registry, raised |-> Nothing, ret |-> Nothing])
    /\ UNCHANGED <<registry, first_reg>>
    /\ UNCHANGED reg_frame

\* a decorator applied to a factory
RegDecorate(name, factory) ==
    /\ registry # Nothing
    /\ name \in decorators
    /\ LET done == decorator(registry[1], name, factory)
       IN  /\ registry' = Some(done.self)
           /\ first_reg' = IF done.raised = Nothing /\ name \notin DOMAIN first_reg
                           THEN dict_set(first_reg, name, factory) ELSE first_reg
           /\ reg_ret' = Some([op |-> "decorator", name |-> name, factory |-> Some(factory),
                               before |-> registry[1]._registry,
                               raised |-> done.raised, ret |-> done.ret])
    /\ UNCHANGED decorators
    /\ UNCHANGED reg_frame

RegGet(name) ==
    /\ registry # Nothing
    /\ LET got == registry_get(registry[1], name)
       IN  reg_ret' = Some([op |-> "get", name |-> name, factory |-> Nothing,
                            before |-> registry[1]._registry,
                            raised |-> got.raised, ret |-> got.ret])
    /\ UNCHANGED <<registry, decorators, first_reg>>
    /\ UNCHANGED reg_frame

RegCreate(name) ==
    /\ registry # Nothing
    /\ LET got == registry_create(registry[1], name)
       IN  reg_ret' = Some([op |-> "create", name |-> name, factory |-> Nothing,
                            before |-> registry[1]._registry,
                            raised |-> got.raised, ret |-> got.ret])
    /\ UNCHANGED <<registry, decorators, first_reg>>
    /\ UNCHANGED reg_frame

RegList ==
    /\ registry # Nothing
    /\ reg_ret' = Some([op |-> "list", name |-> "none", factory |-> Nothing,
                        before |-> registry[1]._registry,
                        raised |-> Nothing, ret |-> Some(registry_list(registry[1]))])
    /\ UNCHANGED <<registry, decorators, first_reg>>
    /\ UNCHANGED reg_frame

NextRegistry ==
    \/ \E name \in RegistryNames : RegRegister(name)
    \/ \E name \in RegistryNames, factory \in RegistryFactories : RegDecorate(name, factory)
    \/ \E name \in RegistryNames : RegGet(name)
    \/ \E name \in RegistryNames : RegCreate(name)
    \/ RegList

SpecRegistry == InitRegistry /\ [][NextRegistry]_vars

----------------------------------------------------------------------------
\* Claims about the scan orchestrator and the fingerprint index

\* the add calls, among the first n, whose text has the canonical text of `text`
MatchingCalls(text, n) ==
    {i \in 1..n : normalize_text(calls[i].text) = normalize_text(text)}

\* C1: in scan_benchmark an example whose canonical text equals that of a
\* training sample added to the index is classified exact and only exact:
\* the step appends one entry to exact_matches, with the example's id and
\* with matched_samples containing every such sample's id, and leaves
\* near_matches and clean alone; the report carries the entry in
\* exact_match_details and counts it in exact_matches.
C1_ExactOnly ==
    [][/\ scanned' # scanned =>
            LET example == scanned'[Len(scanned')]
                hits == MatchingCalls(example_text(example), Len(calls))
            IN  hits # {} =>
                    /\ Len(exact_matches') = Len(exact_matches) + 1
                    /\ SubSeq(exact_matches', 1, Len(exact_matches)) = exact_matches
                    /\ LET e == exact_matches'[Len(exact_matches')]
                       IN  /\ e.example_id = example.example_id
                           /\ e.match_type = "exact"
                           /\ \A i \in hits : calls[i].sample_id \in SeqToSet(e.matched_samples)
                    /\ near_matches' = near_matches
                    /\ clean' = clean
       /\ report' # report =>
            /\ report'[1].exact_match_details = exact_matches
            /\ report'[1].exact_matches = Len(exact_matches)
            /\ \A k \in 1..Len(report'[1].near_match_details) :
                   report'[1].near_match_details[k] = near_matches[k]
      ]_vars

\* the end-to-end scenario: one training sample, a benchmark of an example
\* with the same canonical text and an unrelated one
C1_Witness ==
    /\ phase = "done"
    /\ calls = <<[sample_id |-> "s1", text |-> TextA]>>
    /\ report[1].exact_matches = 1
    /\ report[1].clean = 1
    /\ report[1].exact_match_details =
           <<[example_id |-> "e1", matched_samples |-> <<"s1">>, match_type |-> "exact"]>>
    /\ report[1].near_match_details = <<>>

\* C2: every example is placed in exactly one of the three classes: the
\* three lists together hold one entry per scanned example, and in every
\* report exact_matches + near_matches + clean = total_examples.
C2_Partition ==
    /\ phase \in {"scan", "done"} =>
           Len(exact_matches) + Len(near_matches) + Len(clean) = Len(scanned)
    /\ phase = "done" =>
           /\ report[1].total_examples = Len(scanned)
           /\ report[1].exact_matches + report[1].near_matches + report[1].clean
                  = report[1].total_examples

\* a report over two examples with the same example id, one exact, one near
C2_Witness ==
    /\ phase = "done"
    /\ report[1].total_examples = 2
    /\ scanned[1].example_id = scanned[2].example_id
    /\ report[1].exact_matches = 1
    /\ report[1].near_matches = 1

\* C3: contamination_rate = (exact_matches + near_matches) / total_examples
\* when total_examples > 0, and 0 for the empty list of examples.
C3_Rate ==
    phase = "done" =>
        LET r == report[1]
        IN  IF r.total_examples > 0
            THEN r.contamination_rate = TrueDiv(r.exact_matches + r.near_matches, r.total_examples)
            ELSE r.contamination_rate = 0

\* a report with one near match and one clean example: the rate is 1/2
C3_Witness ==
    /\ phase = "done"
    /\ report[1].total_examples = 2
    /\ report[1].near_matches = 1
    /\ report[1].exact_matches = 0
    /\ report[1].contamination_rate = <<1, 2>>

\* the n-gram hashes of a text, as a set
NgramSet(text) == SeqToSet(compute_ngram_hashes(text, NgramSize, TRUE))

\* the overlap ratio of a text with the samples added under one sample id:
\* the n-gram hashes the text shares with each add call of that id, counted
\* per call, over the number of n-gram hashes of the text
Overlap(sample_id, text) ==
    TrueDiv(Cardinality({<<i, h>> \in (1..Len(calls)) \X NgramSet(text) :
                            /\ calls[i].sample_id = sample_id
                            /\ h \in NgramSet(calls[i].text)}),
            Cardinality(NgramSet(text)))

\* the sample ids whose overlap ratio with a text reaches the threshold
NearCandidates(text) ==
    {id \in {calls[i].sample_id : i \in 1..Len(calls)} :
        FracGE(Overlap(id, text), DefaultThreshold)}

\* the build has put every sample with non-empty text, and no other, into
\* the exact map and into the n-gram map
BuildInserted ==
    /\ calls = [i \in 1..Len(SelectSeq(consumed, LAMBDA r : sample_text(r) # <<>>)) |->
                   LET r == SelectSeq(consumed, LAMBDA q : sample_text(q) # <<>>)[i]
                   IN  [sample_id |-> r.sample_id, text |-> sample_text(r)]]
    /\ \A i \in 1..Len(calls) :
           /\ compute_text_hash(calls[i].text, TRUE) \in DOMAIN _exact
           /\ calls[i].sample_id \in SeqToSet(_exact[compute_text_hash(calls[i].text, TRUE)])
           /\ \A h \in NgramSet(calls[i].text) :
                  h \in DOMAIN _ngrams /\ calls[i].sample_id \in SeqToSet(_ngrams[h])

\* the LSH configuration of the repository's only LSH scan
DemoNumBands == 8
DemoRowsPerBand == 8
DemoNumHashes == 64

\* the LSH index holding the MinHash signatures of the first n add calls
RECURSIVE LshOfCalls(_)
LshOfCalls(n) ==
    IF n = 0 THEN LSHIndex_init(DemoNumBands, DemoRowsPerBand)
    ELSE lsh_add(LshOfCalls(n - 1), calls[n].sample_id,
                 MinHash_compute(DemoNumHashes, calls[n].text, ShingleSize))

C5_RoundTrip ==
    phase = "api" =>
        /\ \A i \in 1..Len(calls) :
               calls[i].sample_id \in SeqToSet(find_exact(Index, calls[i].text).ret)
        /\ \A t \in ApiTexts :
               MatchingCalls(t, Len(calls)) = {} => find_exact(Index, t).ret = <<>>
        /\ (ret # Nothing /\ ret[1].op = "find_exact") =>
               LET hits == MatchingCalls(ret[1].text, ret[1].ncalls)
               IN  /\ \A i \in hits : calls[i].sample_id \in SeqToSet(ret[1].value)
                   /\ hits = {} => ret[1].value = <<>>

\* two samples added with the same canonical text, then found by a variant
\* of that text
C5_Witness ==
    /\ phase = "api"
    /\ Len(calls) = 2
    /\ calls[1].text = TextA /\ calls[2].text = TextAv
    /\ calls[1].sample_id # calls[2].sample_id
    /\ ret # Nothing
    /\ ret[1].op = "find_exact"
    /\ ret[1].ncalls = 2
    /\ Len(ret[1].value) = 2

\* C8: scanning never mutates the index: from the return of
\* build_training_index on, after any number of scanned examples, the
\* exact-hash map and the n-gram map are what the build left (a miss
\* creates no bucket).
C8_ScanReadOnly ==
    built # Nothing => Index = built[1]

\* a scan stopped after two examples, one exact match and one miss of both
\* find_exact and find_near, over a non-empty index
C8_Witness ==
    /\ phase = "scan"
    /\ Len(calls) > 0
    /\ Len(scanned) = 2
    /\ Len(exact_matches) = 1
    /\ Len(clean) = 1

----------------------------------------------------------------------------
\* Claims about the concurrent scan

\* the index a sequential scan_benchmark holds after its first n examples
RECURSIVE SeqIndexAfter(_)
SeqIndexAfter(n) ==
    IF n = 0 THEN built[1]
    ELSE scan_example(EmptyLists, SeqIndexAfter(n - 1), tasks[n], DefaultThreshold).index

\* what a sequential scan_benchmark appends for its k-th example
SeqOutcome(k) ==
    scan_example(EmptyLists, SeqIndexAfter(k - 1), tasks[k], DefaultThreshold).lists

\* C9: once the build has completed, workers scanning different examples
\* without synchronization give each example, under every interleaving of
\* their find_exact / find_near steps, the classification and matched ids of
\* a sequential scan, and leave the index as the build left it.
C9_ConcurrentScan ==
    phase = "conc" =>
        /\ Index = built[1]
        /\ \A k \in 1..Len(tasks) :
               outcome[k] # Nothing => outcome[k][1] = SeqOutcome(k)

\* over a non-empty index, one worker is between find_exact and find_near
\* of the first example while the other has overtaken it and classified
\* the second example
C9_Witness ==
    /\ phase = "conc"
    /\ Len(calls) > 0
    /\ Len(tasks) = 2
    /\ wstate["w1"].pc = "find_near" /\ wstate["w1"].task = 1
    /\ outcome[1] = Nothing
    /\ outcome[2] # Nothing

\* C19: every similarity attached to a match lies in [0, 1]: for any
\* sequence of add calls, repeated sample ids included, and any query text,
\* each similarity find_near returns is >= 0 and <= 1.
C19_SimilarityRange ==
    (ret # Nothing /\ ret[1].op = "find_near") =>
        \A i \in 1..Len(ret[1].value) :
            /\ FracGE(ret[1].value[i][2], <<0, 1>>)
            /\ FracGE(<<1, 1>>, ret[1].value[i][2])

\* C17: both detail lists of the report are capped: exact_match_details and
\* near_match_details hold at most 100 entries however many examples
\* matched, while the counts are those of all examples.
C17_DetailsCapped ==
    (phase = "done" /\ report # Nothing) =>
        /\ Len(report[1].exact_match_details) <= NearDetailsCap
        /\ Len(report[1].near_match_details) <= NearDetailsCap
        /\ report[1].total_examples = Len(scanned)
        /\ report[1].exact_matches = Len(exact_matches)
        /\ report[1].near_matches = Len(near_matches)
        /\ report[1].clean = Len(clean)

\* C18: near_match_details is in descending order of similarity, whatever
\* the order in which the examples were scanned.
C18_NearDetailsSorted ==
    (phase = "done" /\ report # Nothing) =>
        \A i \in 1..(Len(report[1].near_match_details) - 1) :
            FracGE(report[1].near_match_details[i].similarity,
                   report[1].near_match_details[i + 1].similarity)

----------------------------------------------------------------------------
\* Claims about run_contamination_scan

\* the lines of the manifest read so far that are not TrainingSample records
MalformedRead == {i \in 1..cursor : parse_error(manifest[1].lines[i]) # Nothing}

\* the add calls that the well-formed records with text among the first n
\* lines of the manifest give rise to
RECURSIVE AddsOfLines(_)
AddsOfLines(n) ==
    IF n = 0 THEN <<>>
    ELSE LET line == manifest[1].lines[n]
         IN  IF parse_error(line) = Nothing /\ line.text # Nothing /\ line.text[1] # <<>>
             THEN Append(AddsOfLines(n - 1), [sample_id |-> line.sample_id, text |-> line.text[1]])
             ELSE AddsOfLines(n - 1)

\* C15: a malformed manifest record (no sample_id, or not parseable) is
\* skipped and counted as a warning: reading it raises nothing, the build
\* goes on to index every well-formed record before and after it, and the
\* report of the scan carries the number of such records.
C15_MalformedSkipped ==
    (manifest # Nothing /\ MalformedRead # {}) =>
        /\ error = Nothing
        /\ phase # "raised"
        /\ calls = AddsOfLines(cursor)
        /\ report # Nothing =>
               /\ "warnings" \in DOMAIN report[1]
               /\ report[1]["warnings"] = Cardinality(MalformedRead)

\* manifest_path names no file, an unreadable file or a file of an
\* unsupported format
ManifestFatal ==
    /\ manifest # Nothing
    /\ \/ manifest[1].status \in {"missing", "unreadable"}
       \/ manifest[1].suffix \notin {".jsonl", ".parquet"}

\* C16: a missing, unreadable or unsupported-format manifest is fatal:
\* run_contamination_scan raises the error to its caller, returns no report
\* and writes nothing to output_path; a report file exists only if the
\* training index was built completely.
C16_ManifestFatal ==
    /\ ManifestFatal =>
           /\ report = Nothing
           /\ output_file = Nothing
           /\ built = Nothing
           /\ phase \in {"start", "raised"}
           /\ phase = "raised" =>
                  error \in {Some("ValueError"), Some("FileNotFoundError"), Some("PermissionError")}
    /\ (manifest # Nothing /\ output_file # Nothing) =>
           /\ error = Nothing
           /\ built # Nothing
           /\ cursor = Len(manifest[1].lines)
           /\ calls = AddsOfLines(Len(manifest[1].lines))
           /\ output_file = report

\* the run on a missing manifest, with an output path, has raised
C16_Witness ==
    /\ manifest # Nothing
    /\ manifest[1].status = "missing"
    /\ output_path # Nothing
    /\ Len(examples) > 0
    /\ phase = "raised"
    /\ error = Some("FileNotFoundError")

\* C20: Build then Scan: every add precedes the first find_exact /
\* find_near call, the whole manifest has been consumed when scanning
\* starts, and no add is issued once scanning has begun.
C20_BuildThenScan ==
    /\ [](phase \in {"scan", "done"} =>
             /\ cursor = Len(manifest[1].lines)
             /\ calls = AddsOfLines(Len(manifest[1].lines))
             /\ built = Some(Index))
    /\ [](phase \in {"start", "build", "raised"} => scanned = <<>>)
    /\ [][(scanned # <<>> \/ scanned' # scanned) =>
              (calls' = calls /\ cursor' = cursor /\ consumed' = consumed)]_vars

\* a scan has begun on an index built from a manifest of two records, one
\* of them with text
C20_Witness ==
    /\ phase = "scan"
    /\ manifest # Nothing
    /\ Len(manifest[1].lines) = 2
    /\ Len(calls) > 0
    /\ Len(scanned) > 0

----------------------------------------------------------------------------
\* Claims about the LSH index

\* C10: a configuration with num_bands * rows_per_band > H is rejected at
\* construction or when a signature of length H is added: no document is
\* held by an index whose bands do not fit its signature, and every bucket
\* key is a full slice of rows_per_band signature values.
C10_ConfigRejected ==
    lsh # Nothing =>
        /\ \A d \in DOMAIN lsh[1]._signatures :
               lsh[1].num_bands * lsh[1].rows_per_band <= Len(lsh[1]._signatures[d].signature)
        /\ \A b \in 1..lsh[1].num_bands : \A key \in DOMAIN lsh[1]._buckets[b] :
               Len(key) = lsh[1].rows_per_band

\* C11: LSHIndex.query returns only pairs (doc_id, similarity) whose
\* similarity is the position-match estimate between the query signature and
\* the signature stored for doc_id and is >= threshold; a candidate whose
\* estimate equals the threshold is returned; the list is in non-increasing
\* order of similarity.
C11_QueryResult ==
    lsh_ret # Nothing =>
        LET r == lsh_ret[1]
            q == LshSignatures[lsh_num_hashes][r.text]
            stored == lsh[1]._signatures
            cands == SeqToSet(lsh_candidates(lsh[1], q, lsh[1].num_bands))
        IN  /\ \A i \in 1..Len(r.value) :
                   /\ r.value[i][1] \in DOMAIN stored
                   /\ r.value[i][2] = jaccard(q, stored[r.value[i][1]])
                   /\ FracGE(r.value[i][2], r.threshold)
            /\ \A i \in 1..(Len(r.value) - 1) : FracGE(r.value[i][2], r.value[i + 1][2])
            /\ \A d \in cands :
                   FracGE(jaccard(q, stored[d]), r.threshold) =>
                       \E i \in 1..Len(r.value) : r.value[i][1] = d

\* a query returned two documents, the first an exact copy and the second
\* with an estimate equal to the threshold
C11_Witness ==
    /\ lsh_ret # Nothing
    /\ Len(lsh_ret[1].value) = 2
    /\ lsh_ret[1].value[1][2] = <<1, 1>>
    /\ lsh_ret[1].value[2][2] = lsh_ret[1].threshold
    /\ lsh_ret[1].threshold = <<1, 2>>

\* the all-zero signature of a text without shingles
IsSentinel(minhash) == \A i \in 1..Len(minhash.signature) : minhash.signature[i] = 0

\* C13: a document whose shingle set is empty has the all-zero sentinel
\* signature and is similarity-indeterminate: once it is in an LSHIndex, a
\* query with the signature of another document without shingles does not
\* return it.
C13_EmptyIndeterminate ==
    (lsh_ret # Nothing /\ _shingle(lsh_ret[1].text, ShingleSize) = <<>>) =>
        /\ IsSentinel(LshSignatures[lsh_num_hashes][lsh_ret[1].text])
        /\ \A i \in 1..Len(lsh_ret[1].value) :
               ~IsSentinel(lsh[1]._signatures[lsh_ret[1].value[i][1]])

----------------------------------------------------------------------------
\* Claims about MinHash

\* C12: for every non-empty text x and every num_hashes >= 1, two MinHash
\* objects computed for x independently of each other have equal signatures
\* and jaccard 1.0.
C12_SelfSimilarity ==
    (mh_in # Nothing /\ mh_in[1].x # <<>>) =>
        /\ (mh_sig[1].first # Nothing /\ mh_sig[1].second # Nothing) =>
               mh_sig[1].first[1] = mh_sig[1].second[1]
        /\ mh_sim[1].self # Nothing => mh_sim[1].self[1] = <<1, 1>>

\* the two objects of a text with two shingles, of the largest num_hashes,
\* have been compared
C12_Witness ==
    /\ mh_in # Nothing
    /\ mh_in[1].x = TextA
    /\ mh_in[1].num_hashes = MaxHashes
    /\ mh_sim[1].self # Nothing

\* a text of 1 to k-1 words
IsShortText(text) == Len(split(text)) \in 1..(ShingleSize - 1)

\* C14: the shingler gives a text of fewer than k words one shingle standing
\* for the whole text, so the signature of a text of 1 to k-1 words is not
\* the all-zero sentinel, and two different short texts have different
\* signatures.
C14_ShortTextShingle ==
    (mh_in # Nothing /\ IsShortText(mh_in[1].x) /\ mh_sig[1].first # Nothing) =>
        /\ ~IsSentinel(mh_sig[1].first[1])
        /\ (/\ mh_sig[1].other # Nothing
            /\ IsShortText(mh_in[1].y)
            /\ split(str_lower(mh_in[1].y)) # split(str_lower(mh_in[1].x))) =>
               mh_sig[1].other[1].signature # mh_sig[1].first[1].signature

----------------------------------------------------------------------------
\* C6: normalize_text is idempotent: normalize_text(normalize_text(x)) =
\* normalize_text(x) for every input string x.
C6_Idempotent == npc = "done" => canon2 = canon1

\* C7: two strings that differ only in letter case, in the length of
\* whitespace runs (leading and trailing whitespace included) and in
\* punctuation attached to words have the same canonical text and the same
\* exact-match hash.
C7_Insensitive == npc = "done" => (canon_var = canon1 /\ hash_var = hash1)

----------------------------------------------------------------------------
\* Claims about align_subtitles_to_frames

IsSubstring(part, text) ==
    \E k \in 0..(Len(text) - Len(part)) : SubSeq(text, k + 1, k + Len(part)) = part

\* the frame at position i lies between the start of subtitle j and the end of
\* its window
InWindow(j, i) ==
    /\ subtitles[j].start_ms <= frame_timestamps_ms[i]
    /\ frame_timestamps_ms[i] <= subtitles[j].end_ms + window_ms

WellFormed(j) == subtitles[j].start_ms <= subtitles[j].end_ms

AlignedAsClaimed ==
    LET res == aligned[1] IN
    /\ Len(res) = Len(frame_timestamps_ms)
    /\ \A i \in 1..Len(res) :
        /\ res[i].frame_idx = i - 1
        /\ res[i].timestamp_ms = frame_timestamps_ms[i]
        /\ \A j \in 1..Len(subtitles) :
              WellFormed(j) => (IsSubstring(subtitles[j].text, res[i].text) <=> InWindow(j, i))
        /\ ((\A j \in 1..Len(subtitles) : WellFormed(j) /\ ~InWindow(j, i))
               => res[i].text = <<>>)

\* C21 (as stated): align_subtitles_to_frames returns one AlignedSubtitle per
\* frame timestamp, in frame order, frame_idx being the position; the text of a
\* subtitle with start_ms <= end_ms is part of a frame's text exactly when
\* start_ms <= frame_ts <= end_ms + window_ms, whatever window_ms is; a frame
\* with no such subtitle has the empty text.
C21_Aligned == aligned # Nothing => AlignedAsClaimed

\* C21 (amended): the same, for window_ms >= 0.
C21_AlignedWindow == (aligned # Nothing /\ window_ms >= 0) => AlignedAsClaimed

\* two frames, one reached by a subtitle only through its window, one reached
\* by no subtitle
C21_Witness ==
    /\ aligned # Nothing /\ window_ms > 0
    /\ Len(frame_timestamps_ms) = 2 /\ Len(subtitles) = 2
    /\ \E i \in 1..2 : \E j \in 1..2 :
          /\ WellFormed(j) /\ subtitles[j].end_ms < frame_timestamps_ms[i]
          /\ InWindow(j, i)
          /\ aligned[1][i].text # <<>>
    /\ \E i \in 1..2 : aligned[1][i].text = <<>>

----------------------------------------------------------------------------
\* Claims about the buckets of the fingerprint index

\* the sample ids of the add calls whose text has canonical text `canon`, in
\* the order of the calls
RECURSIVE IdsAddedWith(_, _)
IdsAddedWith(added, canon) ==
    IF added = <<>> THEN <<>>
    ELSE IF normalize_text(Head(added).text) = canon
         THEN <<Head(added).sample_id>> \o IdsAddedWith(Tail(added), canon)
         ELSE IdsAddedWith(Tail(added), canon)

IsPrefix(a, b) == Len(a) <= Len(b) /\ SubSeq(b, 1, Len(a)) = a

BucketsInAddOrder ==
    /\ DOMAIN _exact = {compute_text_hash(calls[i].text, TRUE) : i \in 1..Len(calls)}
    /\ \A i \in 1..Len(calls) :
          _exact[compute_text_hash(calls[i].text, TRUE)]
              = IdsAddedWith(calls, normalize_text(calls[i].text))

BucketsOnlyGrow ==
    /\ \A h \in DOMAIN _exact : h \in DOMAIN _exact' /\ IsPrefix(_exact[h], _exact'[h])
    /\ calls' = calls => _exact' = _exact
    /\ calls' # calls =>
          \E h \in DOMAIN _exact' :
              /\ \A g \in DOMAIN _exact' \ {h} : g \in DOMAIN _exact /\ _exact'[g] = _exact[g]
              /\ _exact'[h] = (IF h \in DOMAIN _exact THEN _exact[h] ELSE <<>>)
                                  \o <<calls'[Len(calls')].sample_id>>

\* C22: after any sequence of add, find_exact and find_near calls the list
\* stored under a hash is the sequence of the sample ids added with that
\* canonical text, in add order; an add appends one id to one bucket, a find
\* changes no bucket, and what a bucket held stays a prefix of it.
C22_AppendOnly == [](phase = "api" => BucketsInAddOrder) /\ [][phase = "api" => BucketsOnlyGrow]_vars

\* two ids added under one canonical text through different raw texts, then a
\* lookup
C22_Witness ==
    /\ phase = "api" /\ Len(calls) = 2 /\ ret # Nothing
    /\ calls[1].text # calls[2].text /\ calls[1].sample_id # calls[2].sample_id
    /\ _exact[compute_text_hash(calls[2].text, TRUE)] = <<calls[1].sample_id, calls[2].sample_id>>

----------------------------------------------------------------------------
\* Claims relating MinHash to the normalizer

\* C23: two texts with the same normalize_text result have the same shingle
\* set and the same MinHash signature, so that texts matching exactly by
\* fingerprint have MinHash similarity 1.0.
C23_CanonicalShingles ==
    (/\ mh_in # Nothing
     /\ normalize_text(mh_in[1].x) = normalize_text(mh_in[1].y)
     /\ mh_sig[1].first # Nothing /\ mh_sig[1].other # Nothing) =>
        /\ SeqToSet(_shingle(mh_in[1].x, ShingleSize)) = SeqToSet(_shingle(mh_in[1].y, ShingleSize))
        /\ mh_sig[1].first[1].signature = mh_sig[1].other[1].signature
        /\ mh_sim[1].other # Nothing => mh_sim[1].other[1] = <<1, 1>>

----------------------------------------------------------------------------
\* Claims about TwoLayerCache

SetMax(S) == CHOOSE x \in S : \A y \in S : y <= x

\* the calls that accessed `key`: a put that returned, a get that found it
Accesses(key) ==
    {i \in 1..Len(cache_calls) :
        /\ cache_calls[i].key = key /\ cache_calls[i].raised = Nothing
        /\ \/ cache_calls[i].op = "put"
           \/ cache_calls[i].op = "get" /\ cache_calls[i].ret # Nothing}

LastAccess(key) == SetMax(Accesses(key) \cup {0})
LastClear == SetMax({i \in 1..Len(cache_calls) : cache_calls[i].op = "clear"} \cup {0})

Puts(key) ==
    {i \in 1..Len(cache_calls) :
        cache_calls[i].op = "put" /\ cache_calls[i].key = key /\ cache_calls[i].raised = Nothing}

LastPut(key) == cache_calls[SetMax(Puts(key))].value[1]

\* C24: for memory_limit >= 1, after any sequence of get, put and clear calls
\* the memory layer holds at most memory_limit entries, the access-order list
\* holds exactly the in-memory keys, each once, in the order of their last
\* access by get or put, and a key accessed since the last clear is out of
\* memory only if memory is full of keys accessed after it: an eviction
\* removes the least recently accessed entry.
C24_LRU ==
    (cache # Nothing /\ cache[1]._memory_limit >= 1) =>
        LET self == cache[1]
            order == self._access_order
        IN  /\ Cardinality(DOMAIN self._memory) <= self._memory_limit
            /\ SeqToSet(order) = DOMAIN self._memory
            /\ \A i \in 1..Len(order), j \in 1..Len(order) :
                  i < j => order[i] # order[j] /\ LastAccess(order[i]) < LastAccess(order[j])
            /\ \A k \in CacheKeys \ DOMAIN self._memory :
                  LastAccess(k) > LastClear =>
                      /\ Cardinality(DOMAIN self._memory) = self._memory_limit
                      /\ \A m \in DOMAIN self._memory : LastAccess(k) < LastAccess(m)

\* a full memory of two entries, the older of which was read again before a
\* third key was put: the entry that went is the one not read
C24_Witness ==
    /\ cache # Nothing /\ cache[1]._memory_limit = 2
    /\ Len(cache_calls) = 4
    /\ cache_calls[1].op = "put" /\ cache_calls[2].op = "put"
    /\ cache_calls[1].key # cache_calls[2].key
    /\ cache_calls[3].op = "get" /\ cache_calls[3].key = cache_calls[1].key
    /\ cache_calls[4].op = "put" /\ cache_calls[4].key \notin {cache_calls[1].key, cache_calls[2].key}
    /\ DOMAIN cache[1]._memory = {cache_calls[1].key, cache_calls[4].key}

\* fewer than memory_limit other keys were accessed after the last access of
\* `key`, and no clear came after it
Resident(key) ==
    /\ LastAccess(key) > LastClear
    /\ Cardinality({j \in CacheKeys \ {key} : LastAccess(j) > LastAccess(key)})
           < cache[1]._memory_limit

\* what get(key) is to return for a key that was put
ReadYourWrite(key) ==
    IF cache[1]._disk_path # Nothing THEN Some(LastPut(key))
    ELSE IF Resident(key) THEN Some(LastPut(key))
    ELSE Nothing

\* C25: with a disk path, get(k) after put(k, v) returns the most recently put
\* v whatever puts, evictions and clears came between, and k is in memory
\* again afterwards; without a disk path it returns the most recently put v
\* if k was not evicted or cleared since, and None otherwise.  Stated of a get
\* issued in any reachable state and of every get that was issued last.
C25_ReadYourWrites ==
    cache # Nothing =>
        /\ \A k \in CacheKeys :
              Puts(k) # {} =>
                  LET got == get(cache[1], disk, k)
                  IN  /\ got.raised = Nothing
                      /\ got.ret = ReadYourWrite(k)
                      /\ (cache[1]._disk_path # Nothing) => k \in DOMAIN got.self._memory
        /\ (/\ cache_calls # <<>>
            /\ cache_calls[Len(cache_calls)].op = "get"
            /\ Puts(cache_calls[Len(cache_calls)].key) # {}) =>
               cache_calls[Len(cache_calls)].ret = ReadYourWrite(cache_calls[Len(cache_calls)].key)

\* a key put twice, evicted by the put of another key into a memory of one
\* entry, and read back from disk
C25_Witness ==
    /\ cache # Nothing /\ cache[1]._disk_path # Nothing /\ cache[1]._memory_limit = 1
    /\ Len(cache_calls) = 4
    /\ cache_calls[1].op = "put" /\ cache_calls[2].op = "put" /\ cache_calls[3].op = "put"
    /\ cache_calls[1].key = cache_calls[2].key /\ cache_calls[1].value # cache_calls[2].value
    /\ cache_calls[3].key # cache_calls[1].key
    /\ cache_calls[4].op = "get" /\ cache_calls[4].key = cache_calls[1].key
    /\ cache_calls[4].layer = "disk"
    /\ cache_calls[4].ret = cache_calls[2].value

----------------------------------------------------------------------------
\* Claims about ResumableRunner

\* the examples of a list whose id is not in `done`, in the order of the list
RECURSIVE NotIn(_, _)
NotIn(exs, done) ==
    IF exs = <<>> THEN <<>>
    ELSE IF Head(exs).example_id \notin done THEN <<Head(exs)>> \o NotIn(Tail(exs), done)
    ELSE NotIn(Tail(exs), done)

----------------------------------------------------------------------------
\* Claims about the recall of LSHIndex

\* the positions in which two signatures of one length differ
DiffPositions(a, b) == {i \in 1..Len(a.signature) : a.signature[i] # b.signature[i]}

\* the documents added exactly once
AddedOnce == {d \in LshDocIds : Cardinality({i \in 1..Len(lsh_calls) : lsh_calls[i].doc_id = d}) = 1}

SignatureOf(d) ==
    LshSignatures[lsh_num_hashes][lsh_calls[CHOOSE i \in 1..Len(lsh_calls) : lsh_calls[i].doc_id = d].text]

\* C27: with num_bands >= 1 and num_bands * rows_per_band <= H, a document
\* added once with signature s shares a band bucket with every query
\* signature q of the same length that differs from s in fewer than num_bands
\* positions; query(q, threshold) returns it with the estimate whenever the
\* estimate is >= threshold, and query(s, t) returns (doc_id, 1.0) for t <= 1.
C27_Recall ==
    (/\ lsh_ret # Nothing
     /\ lsh[1].num_bands >= 1
     /\ lsh[1].num_bands * lsh[1].rows_per_band <= lsh_num_hashes) =>
        LET r == lsh_ret[1]
            q == LshSignatures[lsh_num_hashes][r.text]
        IN  \A d \in AddedOnce :
                LET sig == SignatureOf(d)
                IN  Cardinality(DiffPositions(q, sig)) < lsh[1].num_bands =>
                        /\ \E b \in 1..lsh[1].num_bands :
                               /\ band_of(lsh[1], q, b - 1) = band_of(lsh[1], sig, b - 1)
                               /\ bucket_key(band_of(lsh[1], q, b - 1)) \in DOMAIN lsh[1]._buckets[b]
                               /\ d \in SeqToSet(lsh[1]._buckets[b][bucket_key(band_of(lsh[1], q, b - 1))])
                        /\ FracGE(jaccard(q, sig), r.threshold) =>
                               \E i \in 1..Len(r.value) : r.value[i] = <<d, jaccard(q, sig)>>
                        /\ q = sig => \E i \in 1..Len(r.value) : r.value[i] = <<d, <<1, 1>>>>

\* a query returned a document added once whose signature differs from the
\* query's in at least one and fewer than num_bands positions
C27_Witness ==
    /\ lsh_ret # Nothing
    /\ lsh[1].num_bands * lsh[1].rows_per_band <= lsh_num_hashes
    /\ \E d \in AddedOnce :
          LET diff == Cardinality(DiffPositions(LshSignatures[lsh_num_hashes][lsh_ret[1].text],
                                                SignatureOf(d)))
          IN  /\ diff >= 1 /\ diff < lsh[1].num_bands
              /\ \E i \in 1..Len(lsh_ret[1].value) : lsh_ret[1].value[i][1] = d

----------------------------------------------------------------------------
\* Claims about empty benchmark texts

\* C28: over an index built by build_training_index, scan_benchmark
\* classifies an example whose text is empty or missing as clean: the step
\* appends its id to clean and reports no training sample as a match for it.
C28_EmptyClean ==
    [][scanned' # scanned =>
          LET example == scanned'[Len(scanned')]
          IN  example_text(example) = <<>> =>
                  /\ clean' = Append(clean, example.example_id)
                  /\ exact_matches' = exact_matches
                  /\ near_matches' = near_matches]_vars

----------------------------------------------------------------------------
\* Claims about shard_examples

AllShardsRan == shard_in # Nothing /\ DOMAIN shard_out = 0..(shard_in[1].num_shards - 1)

\* C29: for num_shards >= 1 every position of the examples list is yielded
\* by exactly one shard_id in 0..num_shards-1, each shard yields its examples
\* in the order of the list, and the shard sizes differ by at most one.
C29_Partition ==
    shard_in # Nothing =>
        LET exs == shard_in[1].examples IN
        /\ \A sh \in DOMAIN shard_out :
              LET out == shard_out[sh] IN
              /\ Len(out.examples) = Len(out.yields)
              /\ \A k \in 1..Len(out.yields) :
                    /\ out.yields[k].i \in 0..(Len(exs) - 1)
                    /\ out.examples[k] = exs[out.yields[k].i + 1]
              /\ \A k \in 1..(Len(out.yields) - 1) : out.yields[k].i < out.yields[k + 1].i
        /\ \A sh1 \in DOMAIN shard_out, sh2 \in DOMAIN shard_out :
              /\ sh1 # sh2 =>
                    {shard_out[sh1].yields[k].i : k \in 1..Len(shard_out[sh1].yields)}
                    \cap {shard_out[sh2].yields[k].i : k \in 1..Len(shard_out[sh2].yields)} = {}
              /\ Len(shard_out[sh1].examples) - Len(shard_out[sh2].examples) \in {-1, 0, 1}
        /\ AllShardsRan =>
              \A p \in 0..(Len(exs) - 1) :
                  \E sh \in DOMAIN shard_out :
                      \E k \in 1..Len(shard_out[sh].yields) : shard_out[sh].yields[k].i = p

\* a list whose length is not a multiple of num_shards, all shards run, one
\* of them with two examples
C29_Witness ==
    /\ AllShardsRan
    /\ shard_in[1].num_shards >= 2
    /\ Len(shard_in[1].examples) % shard_in[1].num_shards # 0
    /\ \E sh \in DOMAIN shard_out : Len(shard_out[sh].examples) = 2

----------------------------------------------------------------------------
\* Claims about Registry

\* C30: after any sequence of register, get, create and list calls each name
\* maps to the factory of its first successful registration; registering a
\* name that is registered raises ValueError, looking up a name that is not
\* raises KeyError, and a call that fails leaves names and factories as they
\* were.
C30_FirstRegistration ==
    registry # Nothing =>
        /\ registry[1]._registry = first_reg
        /\ reg_ret # Nothing =>
              LET r == reg_ret[1] IN
              /\ (r.op = "decorator" /\ r.name \in DOMAIN r.before) =>
                    r.raised = Some("ValueError") /\ registry[1]._registry = r.before
              /\ (r.op = "decorator" /\ r.name \notin DOMAIN r.before) =>
                    /\ r.raised = Nothing
                    /\ registry[1]._registry = dict_set(r.before, r.name, r.factory[1])
              /\ (r.op \in {"get", "create"} /\ r.name \notin DOMAIN r.before) =>
                    r.raised = Some("KeyError")
              /\ (r.op = "get" /\ r.name \in DOMAIN r.before) =>
                    r.raised = Nothing /\ r.ret = Some(first_reg[r.name])
              /\ (r.op = "create" /\ r.name \in DOMAIN r.before) =>
                    r.raised = Nothing /\ r.ret = Some([made_by |-> first_reg[r.name]])
              /\ r.op = "list" => SeqToSet(r.ret[1]) = DOMAIN first_reg
              /\ r.op # "decorator" => registry[1]._registry = r.before

\* a second registration of a name, with another factory, was rejected
C30_Witness ==
    /\ registry # Nothing /\ reg_ret # Nothing
    /\ reg_ret[1].op = "decorator" /\ reg_ret[1].raised = Some("ValueError")
    /\ reg_ret[1].factory[1] # first_reg[reg_ret[1].name]
    /\ DOMAIN first_reg = RegistryNames

====
